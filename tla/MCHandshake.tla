---------------------------- MODULE MCHandshake ----------------------------
(* Instances of Handshake: three ciphers, one of which the leader's older  *)
(* release does not know.                                                  *)
EXTENDS Handshake

CONSTANTS aes128, aes256, gcm

Tables == [s \in Site |-> IF s = Follower THEN <<aes128, aes256, gcm>>
                                         ELSE <<aes128, aes256>>]

\* What another implementation may send: nothing usable, one, two, all.
AnyList == {<<>>, <<aes128>>, <<gcm>>, <<aes256, aes128>>}

OneForeign == {{}, {Follower}, {Leader}}
=============================================================================
