----------------------------- MODULE MCMessages -----------------------------
(***************************************************************************)
(* The conversions a message goes through, checked together: the options   *)
(* that give the site its identity (RsmpContext), the JSON coder of RSMP   *)
(* messages (RsmpCodec), the answers to requests (Dispatch), the documents *)
(* of variable message signs (Display) and the coder of the secure session *)
(* (Envelope).  They work on data of their own: a behaviour exercises one  *)
(* layer, the others stay in an initial state.                             *)
(***************************************************************************)
EXTENDS RsmpCodec, RsmpContext, Dispatch, Envelope, TLC

CONSTANTS Id, Body, MaxList

VARIABLES layer, call, doc, step, parsed, sign_ret, response, sign_up

Sign == INSTANCE Display WITH ret <- sign_ret, up <- sign_up

json == vars
sign == <<call, doc, step, parsed, sign_ret, response, sign_up>>
allvars == <<layer, json, line, requests, sign, securevars>>

MessagesInit ==
    /\ layer \in {"json", "options", "requests", "sign", "secure"}
    /\ layer = "json" \/ type = "Version"
    /\ layer = "options" \/ options = <<>>
    /\ layer = "secure" \/ from = <<>>
    /\ Init /\ OptionsInit /\ RequestsInit /\ Sign!Init /\ SecureInit

MessagesNext ==
    /\ UNCHANGED layer
    /\ \/ /\ layer = "json" /\ Next
          /\ UNCHANGED <<line, requests, sign, securevars>>
       \/ /\ layer = "options" /\ OptionsNext
          /\ UNCHANGED <<json, requests, sign, securevars>>
       \/ /\ layer = "requests" /\ RequestsNext
          /\ UNCHANGED <<json, line, sign, securevars>>
       \/ /\ layer = "sign" /\ Sign!Next
          /\ UNCHANGED <<json, line, requests, securevars>>
       \/ /\ layer = "secure" /\ SecureNext
          /\ UNCHANGED <<json, line, requests, sign>>

MessagesSpec == MessagesInit /\ [][MessagesNext]_allvars

\* Passwords are compared and nothing else.
KeySymmetry == Permutations(Key)

-----------------------------------------------------------------------------
(* The properties of Display; those of the other layers keep their names.   *)

\* A sign's status is read as it was written and its texts end inside their
\* arrays; "ACK" answers a command that names a message (disp_json_generic.c and the
\* handlers of display).
SignIsFaithful == Sign!SignIsFaithful
=============================================================================
