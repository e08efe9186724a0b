------------------------------ MODULE Ownership ------------------------------
(***************************************************************************)
(* What an owning handle promises, with no descriptor numbers in sight: a  *)
(* resource is acquired once, is in the hands of exactly one party as long *)
(* as it is open, changes hands whole, and is disposed of, or left open    *)
(* for good, only by the party that holds it.  Descriptor implements this  *)
(* specification under the conditions that its refinement run, its theorem *)
(* and the README name.                                                    *)
(***************************************************************************)

CONSTANTS
  Obj,   \* owning handles
  Res    \* resources that may be acquired

VARIABLES
  used,  \* resources acquired so far: none is acquired twice
  open,  \* resources that have been acquired and not yet disposed of
  held,  \* held[o] is the set of resources in the hands of handle o
  loose  \* resources in the hands of code that uses no handle

ovars == <<used, open, held, loose>>

OInit ==
  /\ used = {}
  /\ open = {}
  /\ held = [o \in Obj |-> {}]
  /\ loose = {}

Fresh(r) ==
  /\ r \in Res \ used
  /\ used' = used \cup {r}
  /\ open' = open \cup {r}

AcquireLoose(r) ==
  /\ Fresh(r)
  /\ loose' = loose \cup {r}
  /\ UNCHANGED held

Acquire(o, r) ==
  /\ Fresh(r)
  /\ held[o] = {}
  /\ held' = [held EXCEPT ![o] = {r}]
  /\ UNCHANGED loose

(* Code without a handle entrusts r to handle o, or takes it back. *)
Entrust(o, r) ==
  /\ r \in loose
  /\ held[o] = {}
  /\ loose' = loose \ {r}
  /\ held' = [held EXCEPT ![o] = {r}]
  /\ UNCHANGED <<used, open>>

GiveUp(o, r) ==
  /\ held[o] = {r}
  /\ held' = [held EXCEPT ![o] = {}]
  /\ loose' = loose \cup {r}
  /\ UNCHANGED <<used, open>>

(* Two handles trade what they hold; either may be empty. *)
Exchange(o, p) ==
  /\ held' = [held EXCEPT ![o] = held[p], ![p] = held[o]]
  /\ UNCHANGED <<used, open, loose>>

Dispose(o, r) ==
  /\ held[o] = {r}
  /\ held' = [held EXCEPT ![o] = {}]
  /\ open' = open \ {r}
  /\ UNCHANGED <<used, loose>>

(* A destructor whose attempt to dispose of r fails: nobody has r now. *)
Abandon(o, r) ==
  /\ held[o] = {r}
  /\ held' = [held EXCEPT ![o] = {}]
  /\ UNCHANGED <<used, open, loose>>

DisposeLoose(r) ==
  /\ r \in loose
  /\ loose' = loose \ {r}
  /\ open' = open \ {r}
  /\ UNCHANGED <<used, held>>

(* The process ends and everything is reclaimed at once. *)
Reclaim ==
  /\ open' = {}
  /\ held' = [o \in Obj |-> {}]
  /\ loose' = {}
  /\ UNCHANGED used

ONext ==
  \/ \E r \in Res :
       \/ AcquireLoose(r)
       \/ DisposeLoose(r)
       \/ \E o \in Obj :
            \/ Acquire(o, r) \/ Entrust(o, r) \/ GiveUp(o, r)
            \/ Dispose(o, r) \/ Abandon(o, r)
  \/ \E o, p \in Obj : Exchange(o, p)
  \/ Reclaim

OSpec == OInit /\ [][ONext]_ovars
=============================================================================
