---------------------------- MODULE MCCredentials ----------------------------
(***************************************************************************)
(* What the credential store does with a password that changes, checked    *)
(* together: the copy on disk (AuthFile) and the derived secrets cached by *)
(* the threads (SecretCache).  The two work on data of their own, so that  *)
(* a behaviour exercises one and leaves the other alone: the cache in its  *)
(* initial state, the file empty and the process that reads it not started.*)
(***************************************************************************)
EXTENDS SecretCache, AuthFile

VARIABLE part

\* A password below the minimum, two of usual and two of greater length.
MCPwd == {"short", "a", "b", "long1", "long2"}
MCSize == [p \in MCPwd |-> CASE p = "short" -> 1 [] p \in {"a", "b"} -> 2 [] OTHER -> 4]
MCOrder == <<"to", "from">>
MCFirst == [e \in To \union From |-> IF e \in To THEN "long1" ELSE "a"]

allvars == <<part, vars, filevars>>

NoFile ==
    /\ mem = <<>> /\ order = Order /\ file = <<>> /\ up = FALSE /\ save = Ready
    /\ had = [e \in Entry |-> {}]
    /\ shorter = FALSE /\ changes = 0 /\ crashes = 0

CredentialsInit ==
    /\ Init
    /\ (part = "file" /\ FileInit) \/ (part = "cache" /\ NoFile)

CredentialsNext ==
    /\ UNCHANGED part
    /\ \/ part = "file" /\ FileNext /\ UNCHANGED vars
       \/ part = "cache" /\ Next /\ UNCHANGED filevars

CredentialsSpec == CredentialsInit /\ [][CredentialsNext]_allvars /\ Fairness
=============================================================================
