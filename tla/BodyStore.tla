----------------------------- MODULE BodyStore -----------------------------
(***************************************************************************)
(* What the content-addressed store promises to its clients                *)
(* (ContentAddressedStore.put and get, src/fetech/storage.py): a body that *)
(* was put stays, through power losses, and a body that is got is the one  *)
(* asked for.  ContentStore is shown to implement this specification, and  *)
(* SnapshotStore is built on it.                                           *)
(***************************************************************************)
EXTENDS Naturals, FiniteSets

CONSTANTS
    Bodies, Readers,
    MaxMeddling,  \* bound on removals and damage from outside
    MaxCrashes    \* bound on power losses

VARIABLES
    held,     \* what is at a body's path: "none", "good" or "bad" content
    acked,    \* bodies whose put() returned
    meddled,  \* bodies that something outside removed or damaged
    answer,   \* a get(): "none" so far, "good" or "refused"
    meddling, crashes

bodyVars == <<held, acked, meddled, answer, meddling, crashes>>

BodyInit ==
    /\ held = [b \in Bodies |-> "none"]
    /\ acked = {}
    /\ meddled = {}
    /\ answer = [r \in Readers |-> "none"]
    /\ meddling = 0
    /\ crashes = 0

\* a body appears where nothing was; the store never replaces one
Appear(b) ==
    /\ held[b] = "none"
    /\ held' = [held EXCEPT ![b] = "good"]
    /\ UNCHANGED <<acked, meddled, answer, meddling, crashes>>

\* put() returns
Promise(b) ==
    /\ held[b] = "good" \/ b \in meddled
    /\ acked' = acked \cup {b}
    /\ UNCHANGED <<held, meddled, answer, meddling, crashes>>

\* get() returns the body, or raises
Get(r, b) ==
    /\ answer[r] = "none"
    /\ \/ /\ held[b] = "good" \/ b \in meddled
          /\ answer' = [answer EXCEPT ![r] = "good"]
       \/ /\ held[b] # "good" \/ b \in meddled
          /\ answer' = [answer EXCEPT ![r] = "refused"]
    /\ UNCHANGED <<held, acked, meddled, meddling, crashes>>

Outside(b) ==
    /\ meddling < MaxMeddling /\ meddling' = meddling + 1
    /\ held' \in { [held EXCEPT ![b] = new] : new \in {"none", "good", "bad"} }
    /\ meddled' = meddled \cup {b}
    /\ UNCHANGED <<acked, answer, crashes>>

\* a power loss spares what was acknowledged
Fragile == Bodies \ (acked \ meddled)
LosePower ==
    /\ crashes < MaxCrashes /\ crashes' = crashes + 1
    /\ \E lost \in SUBSET Fragile : \E torn \in SUBSET (Fragile \ lost) :
         held' = [b \in Bodies |-> CASE b \in lost -> "none"
                                     [] b \in torn /\ held[b] # "none" -> "bad"
                                     [] OTHER -> held[b]]
    /\ UNCHANGED <<acked, meddled, answer, meddling>>

BodyNext ==
    \/ \E b \in Bodies :
         Appear(b) \/ Promise(b) \/ Outside(b) \/ \E r \in Readers : Get(r, b)
    \/ LosePower

BodySpec == BodyInit /\ [][BodyNext]_bodyVars
=============================================================================
