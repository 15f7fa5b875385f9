---------------------------- MODULE MCWebrtcStatic ----------------------------
(* WebrtcStatic on a small instance: two changes of the rate, two clients. *)
EXTENDS WebrtcStatic

TwoChanges == <<[first |-> 2, second |-> 1], [first |-> 6, second |-> 3]>>
TwoClients == <<1, 3>>
NoneOrOne == {{}, {<<1, "loss">>}, {UtilFile}}
==============================================================================
