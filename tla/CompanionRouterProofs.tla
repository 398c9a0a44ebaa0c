----------------------- MODULE CompanionRouterProofs ------------------------
(***************************************************************************)
(* Theorems about CompanionRouter, for any packets, bridges and finitely   *)
(* many copies.                                                            *)
(***************************************************************************)
EXTENDS CompanionRouter, FiniteSetTheorems, TLAPS

\* What the assumptions say of a copy's packet.
LEMMA Packet ==
    ASSUME NEW c \in Copies
    PROVE  /\ Of[c] \in Packets
           /\ Kind[Of[c]] \in {"path", "response", "local"}
           /\ Targets(Of[c]) \subseteq Bridges
           /\ Dest[Of[c]] \in Bridges \cup {Nobody}
           /\ Owner[Of[c]] \in Bridges \cup {Helper, Nobody}
BY RouterAssumption DEF Targets, Identities

\* Every variable keeps its type.
THEOREM TypeCorrect == Spec => []TypeOK
<1>1. Init => TypeOK
  BY RouterAssumption DEF Init, TypeOK
<1>2. TypeOK /\ [Next]_vars => TypeOK'
  <2> SUFFICES ASSUME TypeOK, [Next]_vars PROVE TypeOK'
    OBVIOUS
  <2> USE DEF TypeOK, history
  <2>m. \A p \in Packets : Mark(p) => window' \in [Packets -> 0..TTL]
    BY RouterAssumption DEF Mark
  <2>c. ASSUME NEW c \in Copies, NEW yes \in BOOLEAN, CheckThenOffer(c, yes)
        PROVE  /\ pc' \in [Copies -> {"absent", "new", "path_helper", "fanout", "bridge",
                                      "helper", "consumed", "forwarded", "failed"}]
               /\ \A d \in Copies : pc'[d] = "bridge" => pc[d] = "bridge"
               /\ todo' \in [Copies -> SUBSET Bridges]
               /\ suppressed' \subseteq Copies /\ overlapped' \subseteq Packets
    <3>1. CASE Bridges # {} /\ ~Suppressed(c)
      BY <2>c, <3>1, Packet DEF CheckThenOffer
    <3>2. CASE ~(Bridges # {} /\ ~Suppressed(c))
      BY <2>c, <3>2 DEF CheckThenOffer, Ending
    <3> QED BY <3>1, <3>2
  <2>1. ASSUME NEW c \in Copies, RoutePath(c) PROVE TypeOK'
    BY <2>1 DEF RoutePath
  <2>2. ASSUME NEW c \in Copies, RouteResponse(c) PROVE TypeOK'
    BY <2>2, <2>c DEF RouteResponse
  <2>3. ASSUME NEW c \in Copies, RouteLocal(c) PROVE TypeOK'
    BY <2>3 DEF RouteLocal
  <2>4. ASSUME NEW c \in Copies, NEW b \in Bridges, NEW a \in MayAnswer(b, Of[c]),
               OfferEnds(c, b, a)
        PROVE  TypeOK'
    <3>1. answers' \subseteq Copies \X (Bridges \cup {Helper}) \X Answers
      BY <2>4 DEF OfferEnds, Answer, Answers, MayAnswer
    <3>2. todo' \in [Copies -> SUBSET Bridges]
      BY <2>4 DEF OfferEnds
    <3>3. window' \in [Packets -> 0..TTL]
      BY <2>4, <2>m, Packet DEF OfferEnds
    <3>4. /\ pc' \in [Copies -> {"absent", "new", "path_helper", "fanout", "bridge",
                                 "helper", "consumed", "forwarded", "failed"}]
          /\ \A d \in Copies : pc'[d] = "bridge" => pc[d] = "bridge"
      BY <2>4 DEF OfferEnds, Ending
    <3> QED BY <2>4, <3>1, <3>2, <3>3, <3>4 DEF OfferEnds
  <2>5. ASSUME NEW c \in Copies, NEW a \in MayAnswer(Dest[Of[c]], Of[c]),
               AfterBridge(c, a)
        PROVE  TypeOK'
    <3>1. answers' \subseteq Copies \X (Bridges \cup {Helper}) \X Answers
      BY <2>5 DEF AfterBridge, Answer, Answers, MayAnswer
    <3>2. /\ pc' \in [Copies -> {"absent", "new", "path_helper", "fanout", "bridge",
                                 "helper", "consumed", "forwarded", "failed"}]
          /\ \A d \in Copies : pc'[d] = "bridge" => pc[d] = "bridge"
      BY <2>5 DEF AfterBridge, Ending
    <3> QED BY <2>5, <3>1, <3>2 DEF AfterBridge
  <2>6. ASSUME NEW c \in Copies, NEW a \in MayAnswer(Helper, Of[c]), AfterPathHelper(c, a)
        PROVE  TypeOK'
    <3>1. answers' \subseteq Copies \X (Bridges \cup {Helper}) \X Answers
      BY <2>6 DEF AfterPathHelper, Answer, Answers, MayAnswer
    <3>2. (a = "yes") \in BOOLEAN /\ CheckThenOffer(c, a = "yes")
      BY <2>6 DEF AfterPathHelper
    <3> QED BY <2>6, <2>c, <3>1, <3>2 DEF AfterPathHelper
  <2>7. ASSUME NEW c \in Copies, NEW a \in MayAnswer(Helper, Of[c]), AfterHelper(c, a)
        PROVE  TypeOK'
    <3>1. answers' \subseteq Copies \X (Bridges \cup {Helper}) \X Answers
      BY <2>7 DEF AfterHelper, Answer, Answers, MayAnswer
    <3>2. /\ pc' \in [Copies -> {"absent", "new", "path_helper", "fanout", "bridge",
                                 "helper", "consumed", "forwarded", "failed"}]
          /\ \A d \in Copies : pc'[d] = "bridge" => pc[d] = "bridge"
      BY <2>7 DEF AfterHelper, Ending
    <3> QED BY <2>7, <3>1, <3>2 DEF AfterHelper
  <2>8. CASE Tick
    <3>1. window' \in [Packets -> 0..TTL] /\ expired' \in [Packets -> Nat]
      BY <2>8, RouterAssumption DEF Tick
    <3> QED BY <2>8, <3>1 DEF Tick
  <2>9. CASE UNCHANGED vars
    BY <2>9 DEF vars
  <2> QED
    BY <2>1, <2>2, <2>3, <2>4, <2>5, <2>6, <2>7, <2>8, <2>9 DEF Next
<1> QED
  BY <1>1, <1>2, PTL DEF Spec

-----------------------------------------------------------------------------
(* Who was asked.                                                            *)

Over(c) == pc[c] \in {"consumed", "forwarded", "failed"}

\* Where a task is says who has been asked before.
Right(c) ==
    LET p == Of[c] IN
    /\ pc[c] = "path_helper" => Kind[p] = "path"
    /\ pc[c] = "bridge" => Kind[p] = "local"
    /\ pc[c] = "helper" =>
         /\ Kind[p] = "local"
         /\ Dest[p] \in Bridges /\ Owner[p] = Dest[p] => Asked(c, Owner[p])
    /\ pc[c] = "fanout" =>
         /\ Kind[p] # "local"
         /\ Owner[p] \in Targets(p) \ todo[c] => Asked(c, Owner[p])
         /\ Kind[p] = "path" /\ Owner[p] = Helper => Asked(c, Owner[p])
    /\ Over(c) /\ Owner[p] \in Candidates(p) =>
         \/ c \in suppressed
         \/ Asked(c, Owner[p])
         \/ Kind[p] = "local" /\ <<c, Dest[p], "raises">> \in answers

\* Another copy's step does not disturb what is right of this one.
LEMMA RightStays ==
    ASSUME NEW d \in Copies, Right(d), pc'[d] = pc[d], todo'[d] = todo[d],
           answers \subseteq answers', suppressed \subseteq suppressed'
    PROVE  Right(d)'
<1>1. \A id : Asked(d, id) => Asked(d, id)'
  BY DEF Asked
<1>2. Over(d)' <=> Over(d)
  BY DEF Over
<1>3. /\ \A p : Targets(p)' = Targets(p)
      /\ \A p : Candidates(p)' = Candidates(p)
  BY DEF Targets, Candidates
<1> QED BY <1>1, <1>2, <1>3 DEF Right

\* An identity that answers has been asked.
LEMMA AnswerCounts ==
    ASSUME NEW c, NEW id, NEW a \in MayAnswer(id, Of[c]), Answer(c, id, a)
    PROVE  /\ answers \subseteq answers' /\ <<c, id, a>> \in answers'
           /\ Asked(c, id)'
           /\ \A o : Asked(c, o) => Asked(c, o)'
BY DEF Answer, Answers, MayAnswer, Asked

\* A copy that passes the check has its bridges to ask; one that does not is
\* suppressed, or there are no bridges.
LEMMA CheckRight ==
    ASSUME TypeOK, NEW c \in Copies, NEW yes \in BOOLEAN, CheckThenOffer(c, yes),
           Kind[Of[c]] # "local",
           Kind[Of[c]] = "path" /\ Owner[Of[c]] = Helper => Asked(c, Helper)'
    PROVE  Right(c)' /\ \A d \in Copies \ {c} : pc'[d] = pc[d] /\ todo'[d] = todo[d]
<1>t. /\ pc \in [Copies -> {"absent", "new", "path_helper", "fanout", "bridge",
                            "helper", "consumed", "forwarded", "failed"}]
      /\ todo \in [Copies -> SUBSET Bridges]
  BY DEF TypeOK
<1>1. CASE Bridges # {} /\ ~Suppressed(c)
  <2>1. pc' = [pc EXCEPT ![c] = "fanout"] /\ todo' = [todo EXCEPT ![c] = Targets(Of[c])]
    BY <1>1 DEF CheckThenOffer
  <2>2. pc'[c] = "fanout" /\ todo'[c] = Targets(Of[c])
    BY <1>t, <2>1
  <2>3. Targets(Of[c])' = Targets(Of[c])
    BY DEF Targets
  <2>4. Right(c)'
    BY <2>2, <2>3 DEF Right, Over
  <2> QED BY <1>t, <2>1, <2>4
<1>2. CASE ~(Bridges # {} /\ ~Suppressed(c))
  <2>1. /\ pc' = [pc EXCEPT ![c] = Ending(c, yes)]
        /\ suppressed' = suppressed \cup {d \in {c} : Suppressed(d)}
        /\ todo' = todo
    BY <1>2 DEF CheckThenOffer
  <2>2. pc'[c] \in {"consumed", "forwarded"}
    BY <1>t, <2>1 DEF Ending
  <2>3. c \in suppressed' \/ Bridges = {}
    BY <1>2, <2>1
  <2>4. Bridges = {} /\ Owner[Of[c]] \in Candidates(Of[c]) =>
          Kind[Of[c]] = "path" /\ Owner[Of[c]] = Helper
    BY Packet DEF Candidates
  <2>5. Candidates(Of[c])' = Candidates(Of[c])
    BY DEF Candidates, Targets
  <2>6. Right(c)'
    BY <2>2, <2>3, <2>4, <2>5 DEF Right
  <2> QED BY <1>t, <2>1, <2>6
<1> QED BY <1>1, <1>2

LEMMA RightStep == TypeOK /\ (\A c \in Copies : Right(c)) /\ [Next]_vars
                     => (\A c \in Copies : Right(c))'
<1> SUFFICES ASSUME TypeOK, \A c \in Copies : Right(c), [Next]_vars
             PROVE  \A c \in Copies : Right(c)'
  OBVIOUS
<1> USE DEF history
<1>t. /\ pc \in [Copies -> {"absent", "new", "path_helper", "fanout", "bridge",
                            "helper", "consumed", "forwarded", "failed"}]
      /\ todo \in [Copies -> SUBSET Bridges]
  BY DEF TypeOK
<1>f. ASSUME NEW c \in Copies, Right(c)',
             \A d \in Copies \ {c} : pc'[d] = pc[d] /\ todo'[d] = todo[d],
             answers \subseteq answers', suppressed \subseteq suppressed'
      PROVE  \A d \in Copies : Right(d)'
  BY <1>f, RightStays
<1>s. /\ \A p : Targets(p)' = Targets(p)
      /\ \A p : Candidates(p)' = Candidates(p)
  BY DEF Targets, Candidates
<1>1. ASSUME NEW c \in Copies, RoutePath(c) PROVE \A d \in Copies : Right(d)'
  <2>1. pc'[c] = "path_helper" /\ Kind[Of[c]] = "path"
    BY <1>1, <1>t DEF RoutePath
  <2>2. Right(c)'
    BY <2>1 DEF Right, Over
  <2> QED BY <1>1, <1>t, <1>f, <2>2 DEF RoutePath
<1>2. ASSUME NEW c \in Copies, RouteResponse(c) PROVE \A d \in Copies : Right(d)'
  <2>1. Right(c)' /\ \A d \in Copies \ {c} : pc'[d] = pc[d] /\ todo'[d] = todo[d]
    BY <1>2, CheckRight DEF RouteResponse
  <2>2. answers \subseteq answers' /\ suppressed \subseteq suppressed'
    BY <1>2 DEF RouteResponse, CheckThenOffer
  <2> QED BY <1>f, <2>1, <2>2
<1>3. ASSUME NEW c \in Copies, RouteLocal(c) PROVE \A d \in Copies : Right(d)'
  <2>1. Kind[Of[c]] = "local" /\ (pc'[c] = "bridge" \/ pc'[c] = "helper")
        /\ (pc'[c] = "helper" => Dest[Of[c]] \notin Bridges)
    BY <1>3, <1>t DEF RouteLocal
  <2>2. Right(c)'
    BY <2>1 DEF Right, Over
  <2> QED BY <1>3, <1>t, <1>f, <2>2 DEF RouteLocal
<1>4. ASSUME NEW c \in Copies, NEW b \in Bridges, NEW a \in MayAnswer(b, Of[c]),
             OfferEnds(c, b, a)
      PROVE  \A d \in Copies : Right(d)'
  <2>1. /\ pc[c] = "fanout" /\ b \in todo[c] /\ todo'[c] = todo[c] \ {b}
        /\ \A d \in Copies \ {c} : pc'[d] = pc[d] /\ todo'[d] = todo[d]
        /\ UNCHANGED suppressed /\ Answer(c, b, a)
    BY <1>4, <1>t DEF OfferEnds
  <2>2. /\ answers \subseteq answers'
        /\ b = Owner[Of[c]] => Asked(c, b)'
        /\ \A o : Asked(c, o) => Asked(c, o)'
    BY <2>1, AnswerCounts
  <2>3. /\ Kind[Of[c]] # "local"
        /\ Owner[Of[c]] \in Targets(Of[c]) \ todo'[c] => Asked(c, Owner[Of[c]])'
        /\ Kind[Of[c]] = "path" /\ Owner[Of[c]] = Helper => Asked(c, Owner[Of[c]])'
    BY <2>1, <2>2 DEF Right
  <2>4. CASE todo'[c] # {}
    <3>1. pc'[c] = "fanout"
      BY <1>4, <2>1, <2>4 DEF OfferEnds
    <3>2. Right(c)'
      BY <1>s, <2>3, <3>1 DEF Right, Over
    <3> QED BY <1>f, <2>1, <2>2, <3>2
  <2>5. CASE todo'[c] = {}
    <3>1. pc'[c] \in {"consumed", "forwarded"}
      BY <1>4, <1>t, <2>5 DEF OfferEnds, Ending
    <3>2. Owner[Of[c]] \in Candidates(Of[c]) => Asked(c, Owner[Of[c]])'
      BY <2>3, <2>5, Packet DEF Candidates
    <3>3. Right(c)'
      BY <1>s, <3>1, <3>2 DEF Right
    <3> QED BY <1>f, <2>1, <2>2, <3>3
  <2> QED BY <2>4, <2>5
<1>5. ASSUME NEW c \in Copies, NEW a \in MayAnswer(Dest[Of[c]], Of[c]), AfterBridge(c, a)
      PROVE  \A d \in Copies : Right(d)'
  <2> DEFINE p == Of[c]
  <2>1. /\ pc[c] = "bridge" /\ Kind[p] = "local" /\ Dest[p] \in Bridges
        /\ \A d \in Copies \ {c} : pc'[d] = pc[d] /\ todo'[d] = todo[d]
        /\ UNCHANGED suppressed /\ Answer(c, Dest[p], a)
    BY <1>5, <1>t DEF AfterBridge, Right, TypeOK
  <2>2. /\ answers \subseteq answers' /\ <<c, Dest[p], a>> \in answers'
        /\ Dest[p] = Owner[p] => Asked(c, Dest[p])'
    BY <2>1, AnswerCounts
  <2>3. CASE a = "raises"
    <3>1. pc'[c] = "failed"
      BY <1>5, <1>t, <2>3 DEF AfterBridge
    <3>2. Right(c)'
      BY <2>1, <2>2, <2>3, <3>1 DEF Right
    <3> QED BY <1>f, <2>1, <2>2, <3>2
  <2>4. CASE a # "raises" /\ p \in Colliding
    <3>1. pc'[c] = "helper"
      BY <1>5, <1>t, <2>4 DEF AfterBridge
    <3>2. Right(c)'
      BY <2>1, <2>2, <3>1 DEF Right, Over
    <3> QED BY <1>f, <2>1, <2>2, <3>2
  <2>5. CASE a # "raises" /\ p \notin Colliding
    <3>1. pc'[c] \in {"consumed", "forwarded"}
      BY <1>5, <1>t, <2>5 DEF AfterBridge, Ending
    <3>2. Owner[p] # Helper
      BY <2>1, <2>5, Packet, RouterAssumption
    <3>3. Owner[p] \in Candidates(p) => Owner[p] = Dest[p]
      BY <2>1, <3>2 DEF Candidates
    <3>4. Right(c)'
      BY <1>s, <2>1, <2>2, <3>1, <3>3 DEF Right
    <3> QED BY <1>f, <2>1, <2>2, <3>4
  <2> QED BY <2>3, <2>4, <2>5
<1>6. ASSUME NEW c \in Copies, NEW a \in MayAnswer(Helper, Of[c]), AfterPathHelper(c, a)
      PROVE  \A d \in Copies : Right(d)'
  <2>1. /\ Kind[Of[c]] = "path" /\ Answer(c, Helper, a) /\ CheckThenOffer(c, a = "yes")
        /\ (a = "yes") \in BOOLEAN
    BY <1>6 DEF AfterPathHelper, Right
  <2>2. answers \subseteq answers' /\ (Owner[Of[c]] = Helper => Asked(c, Helper)')
    BY <2>1, AnswerCounts
  <2>3. Right(c)' /\ \A d \in Copies \ {c} : pc'[d] = pc[d] /\ todo'[d] = todo[d]
    BY <2>1, <2>2, CheckRight
  <2>4. suppressed \subseteq suppressed'
    BY <2>1 DEF CheckThenOffer
  <2> QED BY <1>f, <2>2, <2>3, <2>4
<1>7. ASSUME NEW c \in Copies, NEW a \in MayAnswer(Helper, Of[c]), AfterHelper(c, a)
      PROVE  \A d \in Copies : Right(d)'
  <2> DEFINE p == Of[c]
  <2>1. /\ pc[c] = "helper" /\ Kind[p] = "local"
        /\ \A d \in Copies \ {c} : pc'[d] = pc[d] /\ todo'[d] = todo[d]
        /\ UNCHANGED suppressed /\ Answer(c, Helper, a)
    BY <1>7, <1>t DEF AfterHelper, Right
  <2>2. /\ answers \subseteq answers' /\ (Owner[p] = Helper => Asked(c, Helper)')
        /\ \A o : Asked(c, o) => Asked(c, o)'
    BY <2>1, AnswerCounts
  <2>3. pc'[c] \in {"consumed", "forwarded", "failed"}
    BY <1>7, <1>t DEF AfterHelper, Ending
  <2>4. Owner[p] \in Candidates(p) => Asked(c, Owner[p])'
    BY <2>1, <2>2 DEF Candidates, Right
  <2>5. Right(c)'
    BY <1>s, <2>3, <2>4 DEF Right
  <2> QED BY <1>f, <2>1, <2>2, <2>5
<1>8. CASE Tick \/ UNCHANGED vars
  BY <1>8, RightStays DEF Tick, vars
<1> QED
  BY <1>1, <1>2, <1>3, <1>4, <1>5, <1>6, <1>7, <1>8 DEF Next

\* An identity is passed over only by a suppression or by the exception of the bridge
\* that shares its hash.
THEOREM RoutingCorrect == Spec => []MissedNeedsReason
<1>1. Init => \A c \in Copies : Right(c)
  BY DEF Init, Right, Over
<1>2. (\A c \in Copies : Right(c)) => MissedNeedsReason
  BY DEF Right, Over, MissedNeedsReason
<1> QED
  BY <1>1, <1>2, RightStep, TypeCorrect, PTL DEF Spec

-----------------------------------------------------------------------------
(* The deduplication entry.                                                  *)

\* A task in its fan-out has asked the bridges that are no longer to do, and none of
\* the others; each entry, open or expired, cost a copy offered in full.
Offering(c) ==
    pc[c] = "fanout" =>
        /\ todo[c] \subseteq Targets(Of[c])
        /\ \A b \in Targets(Of[c]) : Asked(c, b) <=> b \notin todo[c]

\* Nobody has asked a bridge about a copy that has not come to its fan-out.
Untouched(c) ==
    pc[c] \in {"new", "path_helper"} => \A b \in Bridges : ~Asked(c, b)

Entries(p) == expired[p] + (IF window[p] > 0 THEN 1 ELSE 0)

Funded(p) == Entries(p) <= Cardinality(FullyOffered(p))

Offers ==
    /\ \A c \in Copies : Offering(c) /\ Untouched(c)
    /\ \A p \in Packets : Funded(p)

LEMMA OfferedFinite ==
    ASSUME NEW p
    PROVE  /\ IsFiniteSet(FullyOffered(p)) /\ Cardinality(FullyOffered(p)) \in Nat
           /\ IsFiniteSet(FullyOffered(p)')
<1>1. FullyOffered(p) \subseteq Copies /\ FullyOffered(p)' \subseteq Copies
  BY DEF FullyOffered
<1> QED BY <1>1, RouterAssumption, FS_Subset, FS_CardinalityType

\* Another copy's step does not disturb what this one was offered.
LEMMA OfferingStays ==
    ASSUME NEW d \in Copies, Offering(d), Untouched(d),
           pc'[d] = pc[d], todo'[d] = todo[d],
           \A b \in Bridges : Asked(d, b)' <=> Asked(d, b)
    PROVE  Offering(d)' /\ Untouched(d)'
<1>1. Targets(Of[d])' = Targets(Of[d]) /\ Targets(Of[d]) \subseteq Bridges
  BY Packet DEF Targets
<1> QED BY <1>1 DEF Offering, Untouched

\* What a packet's entries cost is paid still if no entry is added.
LEMMA FundedStays ==
    ASSUME TypeOK, NEW p \in Packets, Funded(p), answers \subseteq answers',
           Entries(p)' = Entries(p)
    PROVE  Funded(p)'
<1>1. FullyOffered(p) \subseteq FullyOffered(p)'
  BY DEF FullyOffered, Asked, Targets
<1>2. /\ Cardinality(FullyOffered(p)) <= Cardinality(FullyOffered(p)')
      /\ Cardinality(FullyOffered(p)) \in Nat /\ Cardinality(FullyOffered(p)') \in Nat
  BY <1>1, OfferedFinite, FS_Subset, FS_CardinalityType
<1>3. expired[p] \in Nat /\ Entries(p) \in Nat
  BY DEF TypeOK, Entries
<1> QED BY <1>2, <1>3 DEF Funded

\* The check neither asks anybody nor touches an entry.
LEMMA CheckOffers ==
    ASSUME TypeOK, NEW c \in Copies, NEW yes \in BOOLEAN, CheckThenOffer(c, yes),
           pc[c] \in {"new", "path_helper"}, Offers,
           \A d \in Copies : \A b \in Bridges : Asked(d, b)' <=> Asked(d, b)
    PROVE  \A d \in Copies : Offering(d)' /\ Untouched(d)'
<1>t. /\ pc \in [Copies -> {"absent", "new", "path_helper", "fanout", "bridge",
                            "helper", "consumed", "forwarded", "failed"}]
      /\ todo \in [Copies -> SUBSET Bridges]
  BY DEF TypeOK
<1>s. Targets(Of[c])' = Targets(Of[c]) /\ Targets(Of[c]) \subseteq Bridges
  BY Packet DEF Targets
<1>1. \A d \in Copies \ {c} : pc'[d] = pc[d] /\ todo'[d] = todo[d]
  BY <1>t DEF CheckThenOffer
<1>2. \A d \in Copies \ {c} : Offering(d)' /\ Untouched(d)'
  BY <1>1, OfferingStays DEF Offers
<1>3. \A b \in Bridges : ~Asked(c, b)'
  BY DEF Offers, Untouched
<1>4. CASE Bridges # {} /\ ~Suppressed(c)
  <2>1. pc'[c] = "fanout" /\ todo'[c] = Targets(Of[c])
    BY <1>4, <1>t DEF CheckThenOffer
  <2>2. Offering(c)' /\ Untouched(c)'
    BY <1>3, <1>s, <2>1 DEF Offering, Untouched
  <2> QED BY <1>2, <2>2
<1>5. CASE ~(Bridges # {} /\ ~Suppressed(c))
  <2>1. pc'[c] \in {"consumed", "forwarded"}
    BY <1>5, <1>t DEF CheckThenOffer, Ending
  <2>2. Offering(c)' /\ Untouched(c)'
    BY <2>1 DEF Offering, Untouched
  <2> QED BY <1>2, <2>2
<1> QED BY <1>4, <1>5

\* The last bridge's answer completes the offer of the copy, which pays for the entry
\* that the same step writes.
LEMMA LastOfferFunds ==
    ASSUME TypeOK, NEW c \in Copies, NEW b \in Bridges, NEW a \in MayAnswer(b, Of[c]),
           OfferEnds(c, b, a), Offers, todo'[c] = {}
    PROVE  \A p \in Packets : Funded(p)'
<1>t. /\ window \in [Packets -> 0..TTL] /\ TTL \in Nat \ {0}
      /\ expired \in [Packets -> Nat] /\ todo \in [Copies -> SUBSET Bridges]
  BY RouterAssumption DEF TypeOK
<1>1. /\ pc[c] = "fanout" /\ b \in todo[c] /\ todo'[c] = todo[c] \ {b}
      /\ Mark(Of[c]) /\ Answer(c, b, a) /\ UNCHANGED expired
  BY <1>t DEF OfferEnds, history
<1>2. answers \subseteq answers' /\ Asked(c, b)' /\ \A o : Asked(c, o) => Asked(c, o)'
  BY <1>1, AnswerCounts
<1> TAKE p \in Packets
<1>3. CASE p # Of[c]
  <2>1. Entries(p)' = Entries(p)
    BY <1>1, <1>3, <1>t DEF Mark, Entries
  <2> QED BY <1>2, <2>1, FundedStays DEF Offers
<1>4. CASE p = Of[c]
  <2>1. c \notin FullyOffered(p) /\ c \in FullyOffered(p)'
    <3>1. /\ b \in Targets(p) /\ ~Asked(c, b)
          /\ \A x \in Targets(p) \ {b} : Asked(c, x)
      BY <1>1, <1>4 DEF Offers, Offering
    <3>2. Targets(p)' = Targets(p)
      BY DEF Targets
    <3> QED BY <1>2, <1>4, <3>1, <3>2 DEF FullyOffered
  <2>2. FullyOffered(p) \cup {c} \subseteq FullyOffered(p)'
    BY <1>2, <2>1 DEF FullyOffered, Asked, Targets
  <2>3. /\ Cardinality(FullyOffered(p) \cup {c}) = Cardinality(FullyOffered(p)) + 1
        /\ Cardinality(FullyOffered(p) \cup {c}) <= Cardinality(FullyOffered(p)')
        /\ Cardinality(FullyOffered(p)') \in Nat
    BY <2>1, <2>2, OfferedFinite, FS_AddElement, FS_Subset, FS_CardinalityType
  <2>4. /\ Entries(p)' <= Entries(p) + 1
        /\ Entries(p)' \in Nat /\ Entries(p) \in Nat
    BY <1>1, <1>t DEF Entries, Mark
  <2> QED BY <2>3, <2>4, OfferedFinite DEF Offers, Funded
<1> QED BY <1>3, <1>4

LEMMA OffersStep ==
    TypeOK /\ (\A c \in Copies : Right(c)) /\ Offers /\ [Next]_vars => Offers'
<1> SUFFICES ASSUME TypeOK, \A c \in Copies : Right(c), Offers, [Next]_vars
             PROVE  Offers'
  OBVIOUS
<1> USE DEF history
<1>t. /\ pc \in [Copies -> {"absent", "new", "path_helper", "fanout", "bridge",
                            "helper", "consumed", "forwarded", "failed"}]
      /\ todo \in [Copies -> SUBSET Bridges]
      /\ window \in [Packets -> 0..TTL] /\ expired \in [Packets -> Nat]
      /\ TTL \in Nat \ {0} /\ Helper \notin Bridges
  BY RouterAssumption DEF TypeOK
<1>f. ASSUME answers \subseteq answers', UNCHANGED <<window, expired>>
      PROVE  \A p \in Packets : Funded(p)'
  BY <1>f, FundedStays DEF Offers, Entries
\* A step that leaves its task in no fan-out, and asks nobody if it goes to the helper.
<1>o. ASSUME NEW c \in Copies, pc'[c] # "fanout", pc'[c] # "new",
             pc'[c] = "path_helper" => pc[c] = "new" /\ UNCHANGED answers,
             \A d \in Copies \ {c} :
                 /\ pc'[d] = pc[d] /\ todo'[d] = todo[d]
                 /\ \A b \in Bridges : Asked(d, b)' <=> Asked(d, b)
      PROVE  \A d \in Copies : Offering(d)' /\ Untouched(d)'
  <2>1. Offering(c)' /\ Untouched(c)'
    BY <1>o DEF Offering, Untouched, Offers, Asked
  <2> QED BY <1>o, <2>1, OfferingStays DEF Offers
<1>a. ASSUME NEW c, NEW id, NEW a, Answer(c, id, a)
      PROVE  /\ answers \subseteq answers'
             /\ \A d, o : d # c \/ o # id => (Asked(d, o)' <=> Asked(d, o))
  BY <1>a DEF Answer, Asked
<1>1. ASSUME NEW c \in Copies, RoutePath(c) \/ RouteLocal(c) PROVE Offers'
  <2>1. UNCHANGED <<answers, window, expired, todo>>
    BY <1>1 DEF RoutePath, RouteLocal
  <2>2. /\ pc[c] = "new" /\ pc'[c] \in {"path_helper", "bridge", "helper"}
        /\ \A d \in Copies \ {c} : pc'[d] = pc[d]
    BY <1>1, <1>t DEF RoutePath, RouteLocal
  <2>3. \A d \in Copies : Offering(d)' /\ Untouched(d)'
    BY <1>o, <2>1, <2>2 DEF Asked
  <2> QED BY <1>f, <2>1, <2>3 DEF Offers
<1>2. ASSUME NEW c \in Copies, RouteResponse(c) PROVE Offers'
  <2>1. \A d \in Copies : Offering(d)' /\ Untouched(d)'
    BY <1>2, CheckOffers DEF RouteResponse, Asked
  <2> QED BY <1>2, <1>f, <2>1 DEF RouteResponse, Offers
<1>3. ASSUME NEW c \in Copies, NEW a \in MayAnswer(Helper, Of[c]), AfterPathHelper(c, a)
      PROVE  Offers'
  <2>1. /\ pc[c] = "path_helper" /\ CheckThenOffer(c, a = "yes")
        /\ (a = "yes") \in BOOLEAN /\ Answer(c, Helper, a)
        /\ UNCHANGED <<window, expired>>
    BY <1>3 DEF AfterPathHelper
  <2>2. \A d \in Copies : \A b \in Bridges : Asked(d, b)' <=> Asked(d, b)
    BY <1>a, <1>t, <2>1
  <2>3. \A d \in Copies : Offering(d)' /\ Untouched(d)'
    BY <2>1, <2>2, CheckOffers
  <2> QED BY <1>a, <1>f, <2>1, <2>3 DEF Offers
<1>4. ASSUME NEW c \in Copies, NEW b \in Bridges, NEW a \in MayAnswer(b, Of[c]),
             OfferEnds(c, b, a)
      PROVE  Offers'
  <2>1. /\ pc[c] = "fanout" /\ b \in todo[c] /\ todo'[c] = todo[c] \ {b}
        /\ \A d \in Copies \ {c} : pc'[d] = pc[d] /\ todo'[d] = todo[d]
        /\ Answer(c, b, a) /\ UNCHANGED expired
    BY <1>4, <1>t DEF OfferEnds
  <2>2. Asked(c, b)'
    BY <2>1, AnswerCounts
  <2>3. CASE todo'[c] # {}
    <3>1. UNCHANGED <<pc, window>>
      BY <1>4, <2>3 DEF OfferEnds
    <3>2. Targets(Of[c])' = Targets(Of[c])
      BY DEF Targets
    <3>3. Offering(c)' /\ Untouched(c)'
      BY <1>a, <2>1, <2>2, <3>1, <3>2 DEF Offering, Untouched, Offers
    <3>4. \A d \in Copies \ {c} : Offering(d)' /\ Untouched(d)'
      BY <1>a, <2>1, OfferingStays DEF Offers
    <3> QED BY <1>a, <1>f, <2>1, <3>1, <3>3, <3>4 DEF Offers
  <2>4. CASE todo'[c] = {}
    <3>1. pc'[c] \in {"consumed", "forwarded"}
      BY <1>4, <1>t, <2>4 DEF OfferEnds, Ending
    <3>2. \A d \in Copies : Offering(d)' /\ Untouched(d)'
      BY <1>a, <1>o, <2>1, <3>1
    <3>3. \A p \in Packets : Funded(p)'
      BY <1>4, <2>4, LastOfferFunds
    <3> QED BY <3>2, <3>3 DEF Offers
  <2> QED BY <2>3, <2>4
<1>5. ASSUME NEW c \in Copies, NEW a, AfterBridge(c, a) \/ AfterHelper(c, a)
      PROVE  Offers'
  <2>1. /\ UNCHANGED <<todo, window, expired>>
        /\ \E id : Answer(c, id, a)
        /\ pc'[c] \in {"helper", "consumed", "forwarded", "failed"}
        /\ \A d \in Copies \ {c} : pc'[d] = pc[d]
    BY <1>5, <1>t DEF AfterBridge, AfterHelper, Ending
  <2>2. /\ answers \subseteq answers'
        /\ \A d \in Copies \ {c} : \A b \in Bridges : Asked(d, b)' <=> Asked(d, b)
    BY <1>a, <2>1
  <2>3. \A d \in Copies : Offering(d)' /\ Untouched(d)'
    BY <1>o, <2>1, <2>2
  <2> QED BY <1>f, <2>1, <2>2, <2>3 DEF Offers
<1>6. CASE Tick
  <2>1. \A p \in Packets : Entries(p)' = Entries(p)
    BY <1>6, <1>t DEF Tick, Entries
  <2>2. \A p \in Packets : Funded(p)'
    BY <1>6, <2>1, FundedStays DEF Tick, Offers
  <2>3. \A d \in Copies : Offering(d)' /\ Untouched(d)'
    BY <1>6, OfferingStays DEF Tick, Offers, Asked
  <2> QED BY <2>2, <2>3 DEF Offers
<1>7. CASE UNCHANGED vars
  <2>1. \A d \in Copies : Offering(d)' /\ Untouched(d)'
    BY <1>7, OfferingStays DEF vars, Offers, Asked
  <2> QED BY <1>7, <1>f, <2>1 DEF vars, Offers
<1> QED
  BY <1>1, <1>2, <1>3, <1>4, <1>5, <1>6, <1>7 DEF Next

\* A copy is suppressed only by an entry, and the copies offered in full outnumber the
\* expired ones then.
LEMMA SuppressionNeedsEntry ==
    TypeOK /\ Offers /\ [Next]_vars =>
      \A c \in suppressed' \ suppressed :
          Cardinality(FullyOffered(Of[c])) > expired[Of[c]]
<1> SUFFICES ASSUME TypeOK, Offers, [Next]_vars, NEW c \in suppressed' \ suppressed
             PROVE  Cardinality(FullyOffered(Of[c])) > expired[Of[c]]
  OBVIOUS
<1>1. c \in Copies /\ Suppressed(c)
  BY DEF Next, vars, history, RoutePath, RouteResponse, RouteLocal, OfferEnds,
         AfterBridge, AfterPathHelper, AfterHelper, CheckThenOffer, Tick
<1>2. window[Of[c]] > 0 /\ Of[c] \in Packets
  BY <1>1, Packet DEF Suppressed, WasDelivered
<1>3. expired[Of[c]] \in Nat /\ expired[Of[c]] + 1 <= Cardinality(FullyOffered(Of[c]))
  BY <1>2 DEF TypeOK, Offers, Funded, Entries
<1> QED BY <1>3, OfferedFinite

\* Every entry that keeps a copy from the bridges was paid for by a copy of its own
\* that all of them were asked about.
THEOREM SuppressionCorrect == Spec => SuppressedNeedsFullOffer
<1>1. Init => (\A c \in Copies : Right(c)) /\ Offers
  <2> SUFFICES ASSUME Init PROVE (\A c \in Copies : Right(c)) /\ Offers
    OBVIOUS
  <2>1. \A c \in Copies : pc[c] \in {"new", "absent"}
    BY DEF Init
  <2>2. \A c \in Copies : Right(c) /\ Offering(c) /\ Untouched(c)
    BY <2>1 DEF Init, Right, Over, Offering, Untouched, Asked
  <2>3. \A p \in Packets : Entries(p) = 0
    BY DEF Init, Entries
  <2>4. \A p \in Packets : Funded(p)
    BY <2>3, OfferedFinite DEF Funded
  <2> QED BY <2>2, <2>4 DEF Offers
<1>2. TypeOK /\ Offers /\ [Next]_vars =>
        [\A c \in suppressed' \ suppressed :
           Cardinality(FullyOffered(Of[c])) > expired[Of[c]]]_vars
  BY SuppressionNeedsEntry
<1> QED
  BY <1>1, <1>2, RightStep, OffersStep, TypeCorrect, PTL
     DEF Spec, SuppressedNeedsFullOffer

-----------------------------------------------------------------------------
(* Receipts.                                                                 *)

Received(p) == Answered(p, Bridges, "yes")

\* The packets TakenOncePerWindow speaks of.
Counted(p) ==
    /\ p \notin overlapped
    /\ Deduplicated(p)
    /\ \A c \in FinalHop : Of[c] = p => Kind[p] # "response"

\* At most one fan-out at a time, and no more receipts than windows: one in the open
\* window, and none by another copy during a fan-out.
Paced(p) ==
    /\ \A c, d \in FanningOut(p) : c = d
    /\ FanningOut(p) = {} =>
         Cardinality(Received(p)) <= expired[p] + (IF window[p] > 0 THEN 1 ELSE 0)
    /\ \A c \in FanningOut(p) :
         window[p] = 0 /\ Cardinality(Received(p) \ {c}) <= expired[p]

LEMMA ReceivedFinite ==
    ASSUME NEW p PROVE IsFiniteSet(Received(p)) /\ Cardinality(Received(p)) \in Nat
<1>1. Received(p) \subseteq Copies /\ IsFiniteSet(Copies)
  BY RouterAssumption DEF Received, Answered
<1> QED BY <1>1, FS_Subset, FS_CardinalityType

\* One copy more or less is one receipt more or less.
LEMMA Without ==
    ASSUME NEW S, IsFiniteSet(S), NEW c
    PROVE  /\ Cardinality(S) \in Nat /\ Cardinality(S \ {c}) \in Nat
           /\ Cardinality(S \ {c}) <= Cardinality(S)
           /\ Cardinality(S) <= Cardinality(S \ {c}) + 1
<1>1. Cardinality(S) \in Nat
  BY FS_CardinalityType
<1>2. CASE c \in S
  <2>1. Cardinality(S \ {c}) = Cardinality(S) - 1 /\ IsFiniteSet(S \ {c})
    BY <1>2, FS_RemoveElement
  <2> QED BY <1>1, <2>1, FS_CardinalityType
<1>3. CASE c \notin S
  <2>1. S \ {c} = S
    BY <1>3
  <2> QED BY <1>1, <2>1
<1> QED BY <1>2, <1>3

\* Paced is kept by a step in which no counted packet starts a fan-out, has an answer
\* or has its entry changed.
LEMMA PacedStays ==
    ASSUME NEW p, Paced(p), FanningOut(p)' = FanningOut(p), Received(p)' = Received(p),
           window'[p] = window[p], expired'[p] = expired[p]
    PROVE  Paced(p)'
BY DEF Paced

LEMMA PacedStep ==
    TypeOK /\ (\A c \in Copies : Right(c)) /\ (\A p \in Packets : Counted(p) => Paced(p))
    /\ [Next]_vars => (\A p \in Packets : Counted(p) => Paced(p))'
<1> SUFFICES ASSUME TypeOK, \A c \in Copies : Right(c), [Next]_vars, NEW p \in Packets,
                    Counted(p) => Paced(p), Counted(p)'
             PROVE  Paced(p)'
  OBVIOUS
<1> USE DEF history
<1>t. /\ pc \in [Copies -> {"absent", "new", "path_helper", "fanout", "bridge",
                            "helper", "consumed", "forwarded", "failed"}]
      /\ todo \in [Copies -> SUBSET Bridges]
      /\ window \in [Packets -> 0..TTL] /\ expired \in [Packets -> Nat]
      /\ overlapped \subseteq Packets /\ TTL \in Nat \ {0} /\ Helper \notin Bridges
  BY RouterAssumption DEF TypeOK
<1>k. Kind[p] # "local" /\ p \notin Keyless
      /\ \A c \in FinalHop : Of[c] = p => Kind[p] # "response"
  BY DEF Counted, Deduplicated
<1>c. ASSUME NEW c \in Copies, NEW yes \in BOOLEAN, CheckThenOffer(c, yes),
             pc[c] # "fanout",
             Received(p)' = Received(p), UNCHANGED <<window, expired>>
      PROVE  Paced(p)'
  <2>1. overlapped \subseteq overlapped' /\ Paced(p)
    BY <1>c DEF CheckThenOffer, Counted, Deduplicated
  <2>2. CASE Of[c] = p /\ Bridges # {} /\ ~Suppressed(c)
    <3>1. FanningOut(p) = {}
      BY <1>c, <2>2 DEF CheckThenOffer, Counted
    <3>2. window[p] = 0
      BY <1>k, <1>t, <2>2 DEF Suppressed, WasDelivered
    <3>3. FanningOut(p)' = {c}
      <4>1. pc' = [pc EXCEPT ![c] = "fanout"]
        BY <1>c, <2>2 DEF CheckThenOffer
      <4> QED BY <1>t, <2>2, <3>1, <4>1 DEF FanningOut
    <3>4. Cardinality(Received(p)) <= expired[p]
      BY <1>t, <2>1, <3>1, <3>2, ReceivedFinite DEF Paced
    <3>5. Cardinality(Received(p) \ {c}) <= expired[p]
      BY <1>t, <3>4, ReceivedFinite, Without
    <3>6. window'[p] = 0 /\ Cardinality(Received(p)' \ {c}) <= expired'[p]
      BY <1>c, <3>2, <3>5
    <3> QED BY <3>3, <3>6 DEF Paced
  <2>3. CASE ~(Of[c] = p /\ Bridges # {} /\ ~Suppressed(c))
    <3>1. FanningOut(p)' = FanningOut(p)
      <4>1. \A d \in Copies : Of[d] = p => (pc'[d] = "fanout" <=> pc[d] = "fanout")
        BY <1>c, <1>t, <2>3 DEF CheckThenOffer, Ending
      <4> QED BY <4>1 DEF FanningOut
    <3> QED BY <1>c, <2>1, <3>1, PacedStays
  <2> QED BY <2>2, <2>3
<1>1. ASSUME NEW c \in Copies, RoutePath(c) \/ RouteLocal(c) PROVE Paced(p)'
  <2>1. FanningOut(p)' = FanningOut(p)
    BY <1>1, <1>t DEF RoutePath, RouteLocal, FanningOut
  <2>2. Received(p)' = Received(p)
    BY <1>1 DEF RoutePath, RouteLocal, Received, Answered
  <2>3. Counted(p)
    BY <1>1 DEF RoutePath, RouteLocal, Counted, Deduplicated
  <2> QED BY <1>1, <2>1, <2>2, <2>3, PacedStays DEF RoutePath, RouteLocal
<1>2. ASSUME NEW c \in Copies, RouteResponse(c) PROVE Paced(p)'
  <2>1. Received(p)' = Received(p)
    BY <1>2 DEF RouteResponse, Received, Answered
  <2> QED BY <1>2, <1>c, <2>1 DEF RouteResponse
<1>3. ASSUME NEW c \in Copies, NEW a \in MayAnswer(Helper, Of[c]), AfterPathHelper(c, a)
      PROVE  Paced(p)'
  <2>1. Received(p)' = Received(p)
    BY <1>3, <1>t DEF AfterPathHelper, Answer, Received, Answered
  <2>2. (a = "yes") \in BOOLEAN
    OBVIOUS
  <2> QED BY <1>3, <1>c, <2>1, <2>2 DEF AfterPathHelper
<1>4. ASSUME NEW c \in Copies, NEW b \in Bridges, NEW a \in MayAnswer(b, Of[c]),
             OfferEnds(c, b, a)
      PROVE  Paced(p)'
  <2>1. /\ pc[c] = "fanout" /\ UNCHANGED <<expired, overlapped>>
        /\ answers' = answers \cup {<<c, b, a>>}
    BY <1>4 DEF OfferEnds, Answer
  <2>2. Paced(p)
    BY <2>1 DEF Counted, Deduplicated
  <2>3. CASE Of[c] # p
    <3>1. Received(p)' = Received(p)
      BY <2>1, <2>3 DEF Received, Answered
    <3>2. window'[p] = window[p]
      BY <1>4, <1>t, <2>3 DEF OfferEnds, Mark
    <3>3. FanningOut(p)' = FanningOut(p)
      BY <1>4, <1>t, <2>3 DEF OfferEnds, FanningOut
    <3> QED BY <2>1, <2>2, <3>1, <3>2, <3>3, PacedStays
  <2>4. CASE Of[c] = p
    <3>1. /\ FanningOut(p) = {c} /\ window[p] = 0
          /\ Cardinality(Received(p) \ {c}) <= expired[p]
      BY <2>1, <2>2, <2>4 DEF Paced, FanningOut
    <3>2. Received(p)' \ {c} = Received(p) \ {c}
      BY <2>1 DEF Received, Answered
    <3>3. Cardinality(Received(p)' \ {c}) <= expired'[p]
      BY <2>1, <3>1, <3>2
    <3>4. CASE todo'[c] # {}
      <4>1. UNCHANGED <<pc, window>>
        BY <1>4, <3>4 DEF OfferEnds
      <4>2. FanningOut(p)' = {c}
        BY <3>1, <4>1 DEF FanningOut
      <4>3. window'[p] = 0
        BY <3>1, <4>1
      <4> QED BY <3>3, <4>2, <4>3 DEF Paced
    <3>5. CASE todo'[c] = {}
      <4>1. window'[p] = TTL
        BY <1>4, <1>k, <1>t, <2>4, <3>5 DEF OfferEnds, Mark
      <4>2. FanningOut(p)' = {}
        <5>1. pc'[c] # "fanout" /\ \A d \in Copies \ {c} : pc'[d] = pc[d]
          BY <1>4, <1>t, <3>5 DEF OfferEnds, Ending
        <5> QED BY <3>1, <5>1 DEF FanningOut
      <4>3. IsFiniteSet(Received(p)')
        <5>1. Received(p)' \subseteq Copies
          BY DEF Received, Answered
        <5> QED BY <5>1, RouterAssumption, FS_Subset
      <4>4. Cardinality(Received(p)') <= expired'[p] + 1
        <5>1. /\ Cardinality(Received(p)') \in Nat
              /\ Cardinality(Received(p)' \ {c}) \in Nat
              /\ Cardinality(Received(p)') <= Cardinality(Received(p)' \ {c}) + 1
          BY <4>3, Without
        <5>2. expired'[p] \in Nat
          BY <1>t, <2>1
        <5> QED BY <3>3, <5>1, <5>2
      <4> QED BY <1>t, <4>1, <4>2, <4>4 DEF Paced
    <3> QED BY <3>4, <3>5
  <2> QED BY <2>3, <2>4
<1>5. ASSUME NEW c \in Copies, NEW a, AfterBridge(c, a) \/ AfterHelper(c, a)
      PROVE  Paced(p)'
  <2>1. Kind[Of[c]] = "local"
    BY <1>5 DEF AfterBridge, AfterHelper, Right
  <2>2. FanningOut(p)' = FanningOut(p)
    BY <1>5, <1>k, <1>t, <2>1 DEF AfterBridge, AfterHelper, FanningOut
  <2>3. Received(p)' = Received(p)
    BY <1>5, <1>k, <2>1 DEF AfterBridge, AfterHelper, Answer, Received, Answered
  <2>4. Counted(p) /\ UNCHANGED <<window, expired>>
    BY <1>5 DEF AfterBridge, AfterHelper, Counted, Deduplicated
  <2> QED BY <2>2, <2>3, <2>4, PacedStays
<1>6. CASE Tick
  <2>1. Paced(p) /\ FanningOut(p)' = FanningOut(p) /\ Received(p)' = Received(p)
    BY <1>6 DEF Tick, Counted, Deduplicated, FanningOut, Received, Answered
  <2>2. CASE window[p] = 1
    <3>1. window'[p] = 0 /\ expired'[p] = expired[p] + 1 /\ FanningOut(p) = {}
      BY <1>6, <1>t, <2>1, <2>2 DEF Tick, Paced
    <3>2. Cardinality(Received(p)') <= expired'[p]
      BY <2>1, <2>2, <3>1 DEF Paced
    <3> QED BY <1>t, <2>1, <3>1, <3>2, ReceivedFinite DEF Paced
  <2>3. CASE window[p] # 1
    <3>1. expired'[p] = expired[p] /\ (window'[p] > 0 <=> window[p] > 0)
          /\ (window[p] = 0 => window'[p] = 0)
      BY <1>6, <1>t, <2>3 DEF Tick
    <3> QED BY <2>1, <3>1 DEF Paced
  <2> QED BY <2>2, <2>3
<1>7. CASE UNCHANGED vars
  <2>1. /\ FanningOut(p)' = FanningOut(p) /\ Received(p)' = Received(p) /\ Counted(p)
    BY <1>7 DEF vars, Counted, Deduplicated, FanningOut, Received, Answered
  <2> QED BY <1>7, <2>1, PacedStays DEF vars
<1> QED
  BY <1>1, <1>2, <1>3, <1>4, <1>5, <1>6, <1>7 DEF Next

\* No bridge receives a packet twice in one window, except by overlapping fan-outs or
\* at the final hop of a response.
THEOREM ReceiptsCorrect == Spec => []TakenOncePerWindow
<1>1. Init => \A c \in Copies : Right(c)
  BY DEF Init, Right, Over
<1>2. Init => \A p \in Packets : Counted(p) => Paced(p)
  <2> SUFFICES ASSUME Init, NEW p \in Packets PROVE Paced(p)
    OBVIOUS
  <2>1. FanningOut(p) = {} /\ Received(p) = {} /\ expired[p] = 0 /\ window[p] = 0
    BY DEF Init, FanningOut, Received, Answered
  <2> QED BY <2>1, FS_EmptySet DEF Paced
<1>3. TypeOK /\ (\A p \in Packets : Counted(p) => Paced(p)) => TakenOncePerWindow
  <2> SUFFICES ASSUME TypeOK, NEW p \in Packets, Counted(p), Paced(p)
               PROVE  Cardinality(Received(p)) <= 1 + expired[p]
    BY DEF TakenOncePerWindow, Counted, Received
  <2>t. expired[p] \in Nat
    BY DEF TypeOK
  <2>1. CASE FanningOut(p) = {}
    BY <2>1, <2>t, ReceivedFinite DEF Paced
  <2>2. ASSUME NEW c \in FanningOut(p) PROVE Cardinality(Received(p)) <= 1 + expired[p]
    <3>1. /\ Cardinality(Received(p)) \in Nat /\ Cardinality(Received(p) \ {c}) \in Nat
          /\ Cardinality(Received(p)) <= Cardinality(Received(p) \ {c}) + 1
      BY ReceivedFinite, Without
    <3>2. Cardinality(Received(p) \ {c}) <= expired[p]
      BY <2>2 DEF Paced
    <3> QED BY <2>t, <3>1, <3>2
  <2> QED BY <2>1, <2>2
<1> QED
  BY <1>1, <1>2, <1>3, RightStep, PacedStep, TypeCorrect, PTL DEF Spec
=============================================================================
