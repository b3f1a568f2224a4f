------------------------ MODULE ReplicatedWorkspace ------------------------
(***************************************************************************)
(* What encrypted sync promises the owner of a workspace, without service, *)
(* messages or crashes: every device holds a growing set of operations.    *)
(* An operation is authored once, on one device; it may be published; a    *)
(* device only ever learns published operations, never loses one it holds, *)
(* and confirms only what it holds.                                        *)
(***************************************************************************)
EXTENDS Naturals

CONSTANTS Devices, Ops    \* Ops: the operations that may ever be authored

VARIABLES
    content,    \* per device: the operations its stored document contains
    published,  \* the operations handed over to the other devices
    confirmed   \* per device: the operations it has acknowledged

abstractVars == <<content, published, confirmed>>

AbstractInit ==
    /\ content = [d \in Devices |-> {}]
    /\ published = {}
    /\ confirmed = [d \in Devices |-> {}]

\* New operations, which no device has ever held.
Author(d) ==
    /\ \E new \in SUBSET (Ops \ (published \cup UNION {content[x] : x \in Devices})) :
          content' = [content EXCEPT ![d] = @ \cup new]
    /\ UNCHANGED <<published, confirmed>>

Publish(d) ==
    /\ \E some \in SUBSET content[d] : published' = published \cup some
    /\ UNCHANGED <<content, confirmed>>

Learn(d) ==
    /\ \E some \in SUBSET published : content' = [content EXCEPT ![d] = @ \cup some]
    /\ UNCHANGED <<published, confirmed>>

Confirm(d) ==
    /\ \E some \in SUBSET (content[d] \cap published) :
          confirmed' = [confirmed EXCEPT ![d] = @ \cup some]
    /\ UNCHANGED <<content, published>>

AbstractNext == \E d \in Devices : Author(d) \/ Publish(d) \/ Learn(d) \/ Confirm(d)

AbstractSpec == AbstractInit /\ [][AbstractNext]_abstractVars
=============================================================================
