----------------------------- MODULE TokenStream -----------------------------
(***************************************************************************)
(* What a streaming completion promises its client, whatever threads and   *)
(* queues are behind it (the event_generator of api/router.py: "one per    *)
(* token, then [DONE]"): the texts of the generation in their order, none  *)
(* twice and none left out, and then the end.  A stream that is complete   *)
(* has all of them, one that lacks some says so by an error, and after its *)
(* end nothing is sent.  Only a client that went away is told nothing.     *)
(***************************************************************************)
EXTENDS Naturals, Sequences

CONSTANTS
    Streams,
    Chunks      \* what the model generates for each stream, a sequence of kinds

VARIABLES
    sent,       \* positions of the texts the client was sent
    outcome,
    client      \* whether the client still listens

Outcome == {"none", "open", "complete", "error", "cut"}

\* Empty texts, which a detokenizer holds back, are not events.
Events(s) == {i \in DOMAIN Chunks[s] : Chunks[s][i] # "empty"}

\* The event at j is the next one after position i.
Follows(s, i, j) ==
    /\ j \in Events(s) /\ i < j
    /\ \A k \in Events(s) : i < k => j <= k

LastSent(s) == IF sent[s] = <<>> THEN 0 ELSE sent[s][Len(sent[s])]

Init ==
    /\ sent = [s \in Streams |-> <<>>]
    /\ outcome = [s \in Streams |-> "none"]
    /\ client = [s \in Streams |-> TRUE]

Begin(s) ==
    /\ outcome[s] = "none"
    /\ outcome' = [outcome EXCEPT ![s] = "open"]
    /\ UNCHANGED <<sent, client>>

Deliver(s) ==
    /\ outcome[s] = "open"
    /\ \E j \in Events(s) :
          /\ Follows(s, LastSent(s), j)
          /\ sent' = [sent EXCEPT ![s] = Append(@, j)]
    /\ UNCHANGED <<outcome, client>>

Finish(s, o) ==
    /\ outcome[s] = "open"
    /\ o = "complete" => \A i \in Events(s) : i <= LastSent(s)
    /\ o = "cut" => ~client[s]
    /\ outcome' = [outcome EXCEPT ![s] = o]
    /\ UNCHANGED <<sent, client>>

Leave(s) ==
    /\ client[s]
    /\ client' = [client EXCEPT ![s] = FALSE]
    /\ UNCHANGED <<sent, outcome>>

Next ==
    \E s \in Streams :
        \/ Begin(s) \/ Deliver(s) \/ Leave(s)
        \/ \E o \in {"complete", "error", "cut"} : Finish(s, o)

Spec == Init /\ [][Next]_<<sent, outcome, client>>
=============================================================================
