------------------------------ MODULE Options ------------------------------
(***************************************************************************)
(* The options of a connection and the TLS context made from them          *)
(* (util.cpp).  An Option is a function from keys to values, both texts;   *)
(* a key below stands for one of namespace opt.                            *)
(***************************************************************************)
EXTENDS Codec

USER == <<117>>
DATABASE == <<100>>
SSLMODE == <<109>>
SSLROOTCERT == <<114>>
SSLCRL == <<108>>
SSLCERT == <<99>>
SSLKEY == <<107>>

\* The keys getEnv looks up, each under a name of its own.
EnvKeys == {USER, DATABASE, SSLMODE, SSLROOTCERT, SSLCRL, SSLCERT, SSLKEY}

with(option, key, value) ==
  [k \in DOMAIN option \cup {key} |-> IF k = key THEN value ELSE option[k]]

-----------------------------------------------------------------------------
(* getEnv: env is the environment, uname the name of the effective user,   *)
(* <<>> when there is none.                                                *)

\* (Slip) The environment takes precedence.
fill_over(option, env) ==
  LET new == {k \in EnvKeys \cap DOMAIN env : env[k] # <<>>} IN
  [k \in DOMAIN option \cup new |-> IF k \in new THEN env[k] ELSE option[k]]

fill(option, env) ==
  LET new == {k \in EnvKeys \cap DOMAIN env : env[k] # <<>> /\ k \notin DOMAIN option} IN
  [k \in DOMAIN option \cup new |-> IF k \in new THEN env[k] ELSE option[k]]

getEnv(option, env, uname) ==
  LET filled == fill(option, env) IN
  IF USER \notin DOMAIN filled /\ uname # <<>> THEN with(filled, USER, uname) ELSE filled

-----------------------------------------------------------------------------
(* getSSLMode and verifyCertificate.                                       *)

VERIFY_CA == <<97>>
VERIFY_FULL == <<102>>

getSSLMode(option) ==
  IF SSLMODE \notin DOMAIN option THEN "require"
  ELSE CASE option[SSLMODE] = VERIFY_CA -> "verify_ca"
         [] option[SSLMODE] = VERIFY_FULL -> "verify_full"
         [] OTHER -> "require"

Verifying(mode) == mode \in {"verify_ca", "verify_full"}

\* (Slip) Only verify_full looks at the certificate.
verifyCertificate_lax(mode, preverified) == mode = "verify_full" => preverified

\* Called for every certificate of the peer's chain.
verifyCertificate(mode, preverified) == Verifying(mode) => preverified

-----------------------------------------------------------------------------
(* setContext.  files says of the file looked for under a key (the one the *)
(* option names, or the default one in the home directory) what it is:     *)
(* "good", "bad" (a regular file the loader refuses), "missing" or         *)
(* "special" (it exists but is no regular file).                           *)
(*                                                                         *)
(* is_regular_file() sets ec when the file is missing and clears it when   *)
(* the file is there, whatever it is; the loaders set or clear it.         *)

FileKind == {"good", "bad", "missing", "special"}

\* In loaded: context.set_default_verify_paths() was called.
DEFAULT_PATHS == <<0>>

ServerKeys == <<SSLROOTCERT, SSLCRL>>
ClientKeys == <<SSLCERT, SSLKEY>>

\* (Slip) A file that is missing is passed over, named or not.
look_passes(option, files, key, r) ==
  IF r.returned THEN r
  ELSE CASE files[key] = "good" -> [r EXCEPT !.ec = "none", !.loaded = @ \cup {key}]
         [] files[key] = "bad" -> [r EXCEPT !.ec = "load", !.returned = TRUE]
         [] OTHER -> [r EXCEPT !.ec = "none"]

\* (Slip) A default file has to be there.
look_strict(option, files, key, r) ==
  IF r.returned THEN r
  ELSE CASE files[key] = "good" -> [r EXCEPT !.ec = "none", !.loaded = @ \cup {key}]
         [] files[key] = "bad" -> [r EXCEPT !.ec = "load", !.returned = TRUE]
         [] OTHER -> [r EXCEPT !.ec = IF files[key] = "missing" THEN "ENOENT" ELSE "none",
                               !.returned = TRUE]

\* The block for one file: it goes on, or returns Error(ec, fname).
look(option, files, key, r) ==
  LET absent == IF files[key] = "missing" THEN "ENOENT" ELSE "none" IN
  IF r.returned THEN r
  ELSE CASE files[key] = "good" -> [r EXCEPT !.ec = "none", !.loaded = @ \cup {key}]
         [] files[key] = "bad" -> [r EXCEPT !.ec = "load", !.returned = TRUE]
         [] OTHER -> IF key \in DOMAIN option
                     THEN [r EXCEPT !.ec = absent, !.returned = TRUE]
                     ELSE [r EXCEPT !.ec = absent,
                                    !.loaded = @ \cup (IF key = SSLROOTCERT
                                                       THEN {DEFAULT_PATHS} ELSE {})]

looked(option) ==
  (IF Verifying(getSSLMode(option)) THEN ServerKeys ELSE <<>>) \o ClientKeys

\* returned: before the end; ec: the code of the Error that is returned.
setContext(option, files) ==
  FoldLeft(LAMBDA r, key : look(option, files, key, r),
           [ec |-> "none", returned |-> FALSE, loaded |-> {}], looked(option))
=============================================================================
