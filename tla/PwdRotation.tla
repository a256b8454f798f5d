---------------------------- MODULE PwdRotation ----------------------------
(***************************************************************************)
(* What the Challenge sequence promises, without sessions or messages: the *)
(* password of a login is renewed by two sites that never share memory.    *)
(* The site that owns the login (its TO entry) proposes a new password,    *)
(* the remote site adopts it (its FROM entry), and only then does the      *)
(* owner drop the old one.  Between the two steps the remote site knows    *)
(* one of the two passwords the owner still holds, so a session can always *)
(* be re-established.                                                      *)
(***************************************************************************)
CONSTANTS Account,   \* the accounts: a login together with the site that owns it
          Pwd,       \* the passwords
          NoPwd      \* the absence of a password

VARIABLES pwd,       \* pwd[a]: the owner's current password (auth->pwd, base TO)
          new_pwd,   \* new_pwd[a]: the password being proposed, or NoPwd
          known      \* known[a]: the remote site's password (auth->pwd, base FROM)

rvars == <<pwd, new_pwd, known>>

RotationTypeOK ==
    /\ pwd \in [Account -> Pwd]
    /\ new_pwd \in [Account -> Pwd \cup {NoPwd}]
    /\ known \in [Account -> Pwd]

RotationInit ==
    /\ pwd \in [Account -> Pwd]
    /\ new_pwd = [a \in Account |-> NoPwd]
    /\ known = pwd

(* The owner draws a new password and keeps the current one.               *)
Propose(a) ==
    /\ new_pwd[a] = NoPwd
    /\ \E p \in Pwd \ {pwd[a]} : new_pwd' = [new_pwd EXCEPT ![a] = p]
    /\ UNCHANGED <<pwd, known>>

(* The remote site replaces the current password by the proposed one.      *)
Adopt(a) ==
    /\ new_pwd[a] # NoPwd
    /\ known[a] = pwd[a]
    /\ known' = [known EXCEPT ![a] = new_pwd[a]]
    /\ UNCHANGED <<pwd, new_pwd>>

(* The owner drops the old password: the remote site must have adopted.    *)
Switch(a) ==
    /\ new_pwd[a] # NoPwd
    /\ known[a] = new_pwd[a]
    /\ pwd' = [pwd EXCEPT ![a] = new_pwd[a]]
    /\ new_pwd' = [new_pwd EXCEPT ![a] = NoPwd]
    /\ UNCHANGED known

RotationNext == \E a \in Account : Propose(a) \/ Adopt(a) \/ Switch(a)

RotationSpec == RotationInit /\ [][RotationNext]_rvars

-----------------------------------------------------------------------------
(* The remote site always knows the owner's current password or the one    *)
(* the owner is proposing: no interleaving of renewals locks an account    *)
(* out (auth_set_pwd_b64 against auth_switch_to_new_pwd).                   *)
Agreement ==
    \A a \in Account : known[a] = pwd[a] \/ (new_pwd[a] # NoPwd /\ known[a] = new_pwd[a])
=============================================================================
