------------------------------ MODULE MCStores ------------------------------
(***************************************************************************)
(* Stores and Os for TLC: Buffer, BoundedBlockingQueue, Event, Epoller and *)
(* FileAppender do not interact, so a behaviour uses one of them, and      *)
(* their states add up and do not multiply.  Three Channel objects share   *)
(* two descriptors, so that one is reused while another is handled.        *)
(***************************************************************************)
EXTENDS Stores, Os, TLC

VARIABLE used

MCInit ==
  /\ Init /\ Q!Init /\ E!Init /\ P!Init /\ F!Init
  /\ used \in {"Buffer", "BoundedBlockingQueue", "Event", "Epoller", "FileAppender"}
  /\ used = "Event" \/ event_now = Start

MCNext ==
  /\ \/ /\ used = "Buffer" /\ Next
        /\ UNCHANGED <<queue_vars, event_vars, poller_vars, file_vars>>
     \/ /\ used = "BoundedBlockingQueue" /\ Q!Next
        /\ UNCHANGED <<vars, event_vars, poller_vars, file_vars>>
     \/ /\ used = "Event" /\ E!Next
        /\ UNCHANGED <<vars, queue_vars, poller_vars, file_vars>>
     \/ /\ used = "Epoller" /\ P!Next
        /\ UNCHANGED <<vars, queue_vars, event_vars, file_vars>>
     \/ /\ used = "FileAppender" /\ F!Next
        /\ UNCHANGED <<vars, queue_vars, event_vars, poller_vars>>
  /\ UNCHANGED used

MCSpec ==
  MCInit /\ [][MCNext]_<<vars, queue_vars, event_vars, poller_vars, file_vars, used>>

(* The threads that log are interchangeable. *)
ThreadSymmetry == Permutations(Callers)
=============================================================================
