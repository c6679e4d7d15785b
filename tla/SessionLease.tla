----------------------------- MODULE SessionLease -----------------------------
(***************************************************************************)
(* What the session map and the holder count promise together.  A session  *)
(* that is present may be leased by any number of connections and is       *)
(* retired only when no connection leases it; a connection may be pointed  *)
(* at by any number of sessions and is deleted only when no session points *)
(* at it.  SessionLifecycle is the code that keeps this promise.           *)
(***************************************************************************)
CONSTANTS RTSP, RTP, None

VARIABLES
    object,     \* the state of each session
    lease,      \* the connections that use it
    points,     \* the connection it points at
    deleted     \* the connections that are deleted

leaseVars == <<object, lease, points, deleted>>

LeaseInit ==
    /\ object = [r \in RTP |-> "absent"]
    /\ lease = [r \in RTP |-> {}]
    /\ points = [r \in RTP |-> None]
    /\ deleted = {}

Publish(r) ==
    /\ object[r] = "absent"
    /\ object' = [object EXCEPT ![r] = "present"]
    /\ UNCHANGED <<lease, points, deleted>>

Acquire(s, r) ==
    /\ object[r] = "present" /\ s \notin deleted \cup lease[r]
    /\ lease' = [lease EXCEPT ![r] = @ \cup {s}]
    /\ UNCHANGED <<object, points, deleted>>

GiveBack(s, r) ==
    /\ s \in lease[r]
    /\ lease' = [lease EXCEPT ![r] = @ \ {s}]
    /\ UNCHANGED <<object, points, deleted>>

\* Only a connection that leases the session makes it point at itself.
Point(s, r) ==
    /\ s \in lease[r]
    /\ points' = [points EXCEPT ![r] = s]
    /\ UNCHANGED <<object, lease, deleted>>

Unpoint(r) ==
    /\ points[r] # None
    /\ points' = [points EXCEPT ![r] = None]
    /\ UNCHANGED <<object, lease, deleted>>

Retire(r) ==
    /\ object[r] = "present" /\ lease[r] = {}
    /\ object' = [object EXCEPT ![r] = "retired"]
    /\ UNCHANGED <<lease, points, deleted>>

Destroy(r) ==
    /\ object[r] = "retired" /\ points[r] = None
    /\ object' = [object EXCEPT ![r] = "gone"]
    /\ UNCHANGED <<lease, points, deleted>>

DeleteHolder(s) ==
    /\ \A r \in RTP : points[r] # s /\ s \notin lease[r]
    /\ deleted' = deleted \cup {s}
    /\ UNCHANGED <<object, lease, points>>

LeaseNext ==
    \/ \E r \in RTP : Publish(r) \/ Unpoint(r) \/ Retire(r) \/ Destroy(r)
    \/ \E r \in RTP, s \in RTSP : Acquire(s, r) \/ GiveBack(s, r) \/ Point(s, r)
    \/ \E s \in RTSP : DeleteHolder(s)

LeaseSafeSpec == LeaseInit /\ [][LeaseNext]_leaseVars

\* A retired session is taken apart, whatever the clients do.
LeaseSpec ==
    /\ LeaseSafeSpec
    /\ \A r \in RTP : WF_leaseVars(Unpoint(r) /\ object[r] = "retired") /\ WF_leaseVars(Destroy(r))
=============================================================================
