----------------------------- MODULE CompanionRouter -----------------------------
(* repeater/packet_router.py: how a received packet reaches the companion      *)
(* bridges and the local identities of a repeater, and what is remembered to   *)
(* keep later copies of it from them.                                          *)
(*                                                                             *)
(* Each copy the radio receives is routed by a task of its own, which is       *)
(* suspended in the helper and in every bridge it offers the packet to.  Only  *)
(* an identity that has the key of a packet can authenticate it, and it need   *)
(* not; each may raise.  The engine that forwards what nobody consumed is not  *)
(* modelled.                                                                   *)
EXTENDS Naturals, FiniteSets

CONSTANTS
    Packets,    \* logical packets: what _companion_dedup_key tells apart
    Copies,     \* the copies received, each once
    Traffic,    \* the sets of copies one behaviour may receive
    Of,         \* the packet each copy is a copy of
    Bridges,    \* the companion bridges
    Helper,     \* the room server, repeater or path helper identity
    Nobody,     \* no local identity
    Kind,       \* of each packet: "path", "response" or "local"
    Dest,       \* the bridge registered at its destination hash, or Nobody
    Owner,      \* the identity that has its key
    Colliding,  \* packets whose destination hash is the helper's too
    Keyless,    \* packets without a deduplication key
    FinalHop,   \* copies that came with an empty direct path
    TTL         \* _COMPANION_DEDUPE_TTL_SEC, in ticks

Identities == Bridges \cup {Helper, Nobody}

ASSUME RouterAssumption ==
    /\ IsFiniteSet(Copies)
    /\ Traffic \subseteq SUBSET Copies
    /\ Of \in [Copies -> Packets]
    /\ Helper \notin Bridges /\ Nobody \notin Bridges \cup {Helper}
    /\ Kind \in [Packets -> {"path", "response", "local"}]
    /\ Dest \in [Packets -> Bridges \cup {Nobody}]
    /\ Owner \in [Packets -> Identities]
    /\ Colliding \subseteq Packets /\ Keyless \subseteq Packets
    /\ FinalHop \subseteq Copies
    \* An identity is registered at the hash of its own key.
    /\ \A p \in Packets :
         /\ Owner[p] \in Bridges /\ Kind[p] = "local" => Dest[p] = Owner[p]
         /\ Owner[p] = Helper /\ Dest[p] \in Bridges => p \in Colliding
    /\ TTL \in Nat \ {0}

VARIABLES
    pc,         \* where the task of each copy is
    todo,       \* bridges its fan-out has not heard of yet
    answers,    \* what each identity answered to each copy
    window,     \* ticks left of each packet's entry in _companion_delivered
    expired,    \* how often its entry expired (history)
    suppressed, \* copies not offered because of the entry (history)
    overlapped  \* packets with two copies in a fan-out at once (history)

history == <<expired, suppressed, overlapped>>
vars == <<pc, todo, answers, window, expired, suppressed, overlapped>>

Answers == {"yes", "no", "raises"}

\* Identities without the key of a packet fail its MAC.  The one that has it may
\* answer authenticated = False too: the callers take whatever comes.
MayAnswer(id, p) == IF Owner[p] = id THEN Answers ELSE Answers \ {"yes"}

\* The copies of p that one of ids answered so.
Answered(p, ids, answer) ==
    {c \in Copies : Of[c] = p /\ \E id \in ids : <<c, id, answer>> \in answers}

Init ==
    /\ \E received \in Traffic :
         pc = [c \in Copies |-> IF c \in received THEN "new" ELSE "absent"]
    /\ todo = [c \in Copies |-> {}]
    /\ answers = {}
    /\ window = [p \in Packets |-> 0]
    /\ expired = [p \in Packets |-> 0]
    /\ suppressed = {} /\ overlapped = {}

-----------------------------------------------------------------------------
(* The deduplication entry and the ends of a task.                           *)

\* Fault: an entry is taken for expired in its last tick.
WasDeliveredEarlier(p) == window[p] > 1

\* _was_delivered_to_companions.
WasDelivered(p) == window[p] > 0

\* _mark_delivered_to_companions.  Pruning drops entries that count no more.
Mark(p) == window' = IF p \in Keyless THEN window ELSE [window EXCEPT ![p] = TTL]

\* A copy that nobody authenticated goes on to the forwarding engine; a protocol
\* response is consumed by the final hop, whoever authenticated it.
Ending(c, authenticated) ==
    IF \/ Kind[Of[c]] = "response" /\ c \in FinalHop /\ Bridges # {}
       \/ Kind[Of[c]] # "response" /\ authenticated
    THEN "consumed" ELSE "forwarded"

FanningOut(p) == {c \in Copies : pc[c] = "fanout" /\ Of[c] = p}

\* A targeted PATH goes to the bridge at its destination, one with an ephemeral
\* destination and a protocol response to all of them.
Targets(p) ==
    IF Kind[p] = "path" /\ Dest[p] \in Bridges THEN {Dest[p]} ELSE Bridges

\* A protocol response is always delivered at its final hop.
Suppressed(c) ==
    WasDelivered(Of[c]) /\ ~(Kind[Of[c]] = "response" /\ c \in FinalHop)

\* The check before a fan-out: start it, or leave the copy to the engine.
CheckThenOffer(c, authenticated) ==
    LET p == Of[c] IN
    IF Bridges # {} /\ ~Suppressed(c)
      THEN /\ pc' = [pc EXCEPT ![c] = "fanout"]
           /\ todo' = [todo EXCEPT ![c] = Targets(p)]
           /\ overlapped' = overlapped \cup {q \in {p} : FanningOut(q) # {}}
           /\ UNCHANGED suppressed
      ELSE /\ pc' = [pc EXCEPT ![c] = Ending(c, authenticated)]
           /\ suppressed' = suppressed \cup {d \in {c} : Suppressed(d)}
           /\ UNCHANGED <<todo, overlapped>>

Answer(c, id, answer) == answers' = answers \cup {<<c, id, answer>>}

\* Whether an identity has authenticated the copy by the end of the step.
Authenticated(c) == \E id \in Bridges \cup {Helper} : <<c, id, "yes">> \in answers'

-----------------------------------------------------------------------------
(* The branches of _route_packet.                                            *)

\* PATH: the helper always inspects it first.
RoutePath(c) ==
    /\ pc[c] = "new" /\ Kind[Of[c]] = "path"
    /\ pc' = [pc EXCEPT ![c] = "path_helper"]
    /\ UNCHANGED <<todo, answers, window>>
    /\ UNCHANGED history

\* The path helper has answered or raised, which is logged and means no.
AfterPathHelper(c, answer) ==
    /\ pc[c] = "path_helper"
    /\ Answer(c, Helper, answer)
    /\ CheckThenOffer(c, answer = "yes")
    /\ UNCHANGED <<window, expired>>

RouteResponse(c) ==
    /\ pc[c] = "new" /\ Kind[Of[c]] = "response"
    /\ CheckThenOffer(c, FALSE)
    /\ UNCHANGED <<answers, window, expired>>

\* Fault: the entry is written after the first bridge.
OfferEndsMarkingEarly(c, b, answer) ==
    /\ pc[c] = "fanout" /\ b \in todo[c]
    /\ Answer(c, b, answer)
    /\ todo' = [todo EXCEPT ![c] = @ \ {b}]
    /\ Mark(Of[c])
    /\ pc' = IF todo'[c] = {} THEN [pc EXCEPT ![c] = Ending(c, Authenticated(c))]
                              ELSE pc
    /\ UNCHANGED history

\* _fan_out_to_bridges: one bridge after the other, whatever it answers; after
\* the last one the packet is marked, in the same step.
OfferEnds(c, b, answer) ==
    /\ pc[c] = "fanout" /\ b \in todo[c]
    /\ Answer(c, b, answer)
    /\ todo' = [todo EXCEPT ![c] = @ \ {b}]
    /\ IF todo'[c] = {}
         THEN Mark(Of[c]) /\ pc' = [pc EXCEPT ![c] = Ending(c, Authenticated(c))]
         ELSE UNCHANGED <<pc, window>>
    /\ UNCHANGED history

\* _consume_via_local_candidates: the bridge at the destination hash first, the
\* helper if there is no such bridge.
RouteLocal(c) ==
    /\ pc[c] = "new" /\ Kind[Of[c]] = "local"
    /\ pc' = [pc EXCEPT ![c] = IF Dest[Of[c]] \in Bridges THEN "bridge" ELSE "helper"]
    /\ UNCHANGED <<todo, answers, window>>
    /\ UNCHANGED history

\* Fault: a packet the bridge does not know is not offered to the helper.
AfterBridgeOnly(c, answer) ==
    /\ pc[c] = "bridge"
    /\ Answer(c, Dest[Of[c]], answer)
    /\ pc' = [pc EXCEPT ![c] =
                IF answer = "raises" THEN "failed" ELSE Ending(c, answer = "yes")]
    /\ UNCHANGED <<todo, window>>
    /\ UNCHANGED history

\* A bridge that raises takes the task with it; otherwise the helper is asked
\* too if it shares the hash, whatever the bridge said.
AfterBridge(c, answer) ==
    /\ pc[c] = "bridge"
    /\ Answer(c, Dest[Of[c]], answer)
    /\ pc' = [pc EXCEPT ![c] =
                CASE answer = "raises" -> "failed"
                  [] answer # "raises" /\ Of[c] \in Colliding -> "helper"
                  [] OTHER -> Ending(c, answer = "yes")]
    /\ UNCHANGED <<todo, window>>
    /\ UNCHANGED history

AfterHelper(c, answer) ==
    /\ pc[c] = "helper"
    /\ Answer(c, Helper, answer)
    /\ pc' = [pc EXCEPT ![c] =
                IF answer = "raises" THEN "failed" ELSE Ending(c, Authenticated(c))]
    /\ UNCHANGED <<todo, window>>
    /\ UNCHANGED history

\* Time passes for every entry; an entry that reaches its expiry counts no more.
Tick ==
    /\ \E p \in Packets : window[p] > 0
    /\ window' = [p \in Packets |-> IF window[p] > 0 THEN window[p] - 1 ELSE 0]
    /\ expired' = [p \in Packets |->
                     IF window[p] = 1 THEN expired[p] + 1 ELSE expired[p]]
    /\ UNCHANGED <<pc, todo, answers, suppressed, overlapped>>

Next ==
    \/ \E c \in Copies :
         \/ RoutePath(c) \/ RouteResponse(c) \/ RouteLocal(c)
         \/ \E b \in Bridges :
              \E answer \in MayAnswer(b, Of[c]) : OfferEnds(c, b, answer)
         \/ \E answer \in MayAnswer(Dest[Of[c]], Of[c]) : AfterBridge(c, answer)
         \/ \E answer \in MayAnswer(Helper, Of[c]) :
              AfterPathHelper(c, answer) \/ AfterHelper(c, answer)
    \/ Tick

Spec == Init /\ [][Next]_vars

-----------------------------------------------------------------------------
(* Properties.                                                               *)

TypeOK ==
    /\ pc \in [Copies -> {"absent", "new", "path_helper", "fanout", "bridge",
                          "helper", "consumed", "forwarded", "failed"}]
    /\ \A c \in Copies : pc[c] = "bridge" => Dest[Of[c]] \in Bridges
    /\ todo \in [Copies -> SUBSET Bridges]
    /\ answers \subseteq Copies \X (Bridges \cup {Helper}) \X Answers
    /\ window \in [Packets -> 0..TTL]
    /\ expired \in [Packets -> Nat]
    /\ suppressed \subseteq Copies /\ overlapped \subseteq Packets

Deduplicated(p) == Kind[p] # "local" /\ p \notin Keyless

\* "Deliver at most once per logical packet so the client is not spammed with
\* duplicates": within one deduplication window a bridge receives a packet twice
\* only if two of its copies were in their fan-outs at once (neither had been
\* marked when the other was checked), or at the final hop, where a copy is
\* always delivered.
TakenOncePerWindow ==
    \A p \in Packets \ overlapped :
        /\ Deduplicated(p)
        /\ \A c \in FinalHop : Of[c] = p => Kind[p] # "response"
        => Cardinality(Answered(p, Bridges, "yes")) <= 1 + expired[p]

Asked(c, id) == \E answer \in Answers : <<c, id, answer>> \in answers

\* The copies of p that every bridge it goes to was asked about.
FullyOffered(p) == {c \in Copies : Of[c] = p /\ \A b \in Targets(p) : Asked(c, b)}

\* A copy is kept from the bridges only while the packet has an entry, and each
\* entry, the open one and those that have expired, cost a copy of its own that
\* every bridge the packet goes to was asked about: never a fan-out that had
\* bridges to come, nor one copy twice.  The docstring of
\* _mark_delivered_to_companions promises more, that a bridge has received the
\* packet; the entry is written whatever the bridges answered (BUG-013).
SuppressedNeedsFullOffer ==
    [][\A c \in suppressed' \ suppressed :
         Cardinality(FullyOffered(Of[c])) > expired[Of[c]]]_vars

Candidates(p) ==
    CASE Kind[p] = "path" -> Targets(p) \cup {Helper}
      [] Kind[p] = "response" -> Targets(p)
      [] OTHER -> ({Dest[p]} \cap Bridges) \cup {Helper}

\* A copy of a packet that belongs to an identity of this node is routed without
\* that identity being asked only as a suppressed duplicate, or if the bridge
\* with the same hash raised on it before the owner's turn (BUG-014).
MissedNeedsReason ==
    \A c \in Copies :
        LET p == Of[c] IN
        /\ pc[c] \in {"consumed", "forwarded", "failed"}
        /\ Owner[p] \in Candidates(p)
        => \/ Asked(c, Owner[p])
           \/ c \in suppressed
           \/ Kind[p] = "local" /\ <<c, Dest[p], "raises">> \in answers
=============================================================================
