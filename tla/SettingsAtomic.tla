--------------------------- MODULE SettingsAtomic ---------------------------
(***************************************************************************)
(* What saving settings promises, without how: the install dir holds a     *)
(* configuration and the user config dir a queue of at most one bundle.  A *)
(* save puts a whole accepted configuration in place at once, or leaves    *)
(* every file that existed as it was, or queues an accepted bundle.        *)
(***************************************************************************)
CONSTANTS Files, Configs, Accepted, Absent

VARIABLES config, queue

Nothing == [f \in Files |-> Absent]

Init == config \in Accepted /\ queue = Nothing

\* A configuration that -check accepts takes effect as a whole.
Install == config' \in Accepted /\ UNCHANGED queue

\* A save that failed may leave list files behind that did not exist before.
Leave ==
    /\ config' \in Configs
    /\ \A f \in Files : config[f] \in {Absent, config'[f]}
    /\ UNCHANGED queue

\* A checked candidate is queued; the queue is applied, replaced or discarded.
Enqueue == queue' \in Accepted /\ UNCHANGED config
Dequeue == queue' = Nothing /\ UNCHANGED config

Next == Install \/ Leave \/ Enqueue \/ Dequeue

Spec == Init /\ [][Next]_<<config, queue>>
=============================================================================
