---------------------------- MODULE LocalMcpProofs ----------------------------
(***************************************************************************)
(* Proofs about LocalMcp for any connections, calls and schemas, and any   *)
(* number of ends that are lost.                                           *)
(***************************************************************************)
EXTENDS LocalMcp, FiniteSetTheorems, TLAPS

-----------------------------------------------------------------------------
(* TypeOK, part by part.                                                   *)

RowTypes ==
  /\ allowed \in BOOLEAN /\ code \in {"none", "valid", "spent"}
  /\ device \in {"none", "paired", "revoked"} /\ pinned \in Schemas \cup {None}

ClientTypes == stored \in BOOLEAN /\ tools \in Schemas /\ drops \in 0 .. MaxDrops

LineTypes ==
  /\ handler \in [Conns -> Open \cup {"none"}]
  /\ held \subseteq Conns /\ closed \subseteq Conns /\ orphans \subseteq Conns
  /\ offered \in [Conns -> Schemas \cup {None}]
  /\ registered \in Conns \cup {None}

CallTypes ==
  /\ asked \in [Conns -> Seq(Calls)] /\ replies \in [Conns -> Seq(Calls)]
  /\ pending \in [Conns -> SUBSET Calls]
  /\ call \in [Calls -> {"idle", "waiting", "answered", "broken", "ok", "unavailable", "failed", "refused"}]

(* One call at a time on a connection.                                     *)
OneCall == \A s \in Conns : pending[s] = {} \/ \E c \in Calls : pending[s] = {c}

Types == RowTypes /\ ClientTypes /\ LineTypes /\ CallTypes /\ OneCall

-----------------------------------------------------------------------------
(* The inductive invariant.                                                *)

(* What is registered has a handler, which unregisters it when it ends.    *)
RegisteredIsHandled == registered # None => ~At(registered, "none")

(* The schema is pinned before a connection is live, also while another is *)
(* closed for it, and never changes then.                                  *)
AcceptedMeetThePin ==
  \A s \in Conns : At(s, "replacing") \/ At(s, "live") => pinned # None /\ offered[s] = pinned

Lines == RegisteredIsHandled /\ AcceptedMeetThePin /\ LiveIsRegistered

IInv == Types /\ Lines /\ WaitingHasHandler

(* The parts are what TypeOK says.                                         *)
LEMMA TypeParts ==
  ASSUME IInv
  PROVE  TypeOK
<1>1. ASSUME NEW s \in Conns
      PROVE  Cardinality(pending[s]) <= 1
  <2>1. CASE pending[s] = {}
    BY <2>1, FS_EmptySet
  <2>2. CASE \E c \in Calls : pending[s] = {c}
    <3>1. PICK c \in Calls : pending[s] = {c}
      BY <2>2
    <3>2. Cardinality({c}) = 1
      BY FS_Singleton
    <3>3. QED
      BY <3>1, <3>2
  <2>3. QED
    BY <2>1, <2>2 DEF IInv, Types, OneCall
<1>2. QED
  BY <1>1 DEF IInv, Types, RowTypes, ClientTypes, LineTypes, CallTypes, TypeOK

-----------------------------------------------------------------------------
(* The admin, the account and the connector.                               *)

(* Steps that leave handlers, registrations and calls as they are, and     *)
(* close what they like.                                                   *)
LEMMA Elsewhere ==
  ASSUME IInv, RowTypes', ClientTypes', closed' \subseteq Conns, closed \subseteq closed',
         pinned' = pinned, UNCHANGED <<handler, offered, registered, orphans, pending>>,
         held' \subseteq held, asked' \in [Conns -> Seq(Calls)], replies' \in [Conns -> Seq(Calls)],
         call' \in [Calls -> {"idle", "waiting", "answered", "broken", "ok", "unavailable", "failed", "refused"}],
         \A c \in Calls : call'[c] = "waiting" => call[c] = "waiting"
  PROVE  IInv'
<1> USE DEF IInv, Types
<1>1. LineTypes' /\ CallTypes' /\ OneCall'
  BY DEF LineTypes, CallTypes, OneCall
<1>2. Lines'
  BY DEF Lines, RegisteredIsHandled, AcceptedMeetThePin, LiveIsRegistered, At
<1>3. WaitingHasHandler'
  BY DEF WaitingHasHandler, At
<1>4. QED
  BY <1>1, <1>2, <1>3

(* What the portal closes is a connection.                                 *)
LEMMA Closing ==
  ASSUME Types, Disconnects
  PROVE  closed' \subseteq Conns /\ closed \subseteq closed'
BY DEF Types, LineTypes, Disconnects

(* Codes, devices and the feature; the connector's tools.                  *)
LEMMA AdminStep ==
  ASSUME IInv, IssuesCode \/ CodeExpires \/ RevokesDevice \/ RevokesAccount \/ SwitchesFeature \/ ChangesTools
  PROVE  IInv'
<1> USE DEF IInv, Types
<1>1. closed' \subseteq Conns /\ closed \subseteq closed'
  BY Closing DEF IssuesCode, CodeExpires, RevokesDevice, RevokesAccount, SwitchesFeature, ChangesTools,
     LineTypes, lines
<1>2. RowTypes' /\ ClientTypes'
  BY DEF IssuesCode, CodeExpires, RevokesDevice, RevokesAccount, SwitchesFeature, ChangesTools,
     RowTypes, ClientTypes, rows, client
<1>3. UNCHANGED <<pinned, handler, held, offered, registered, orphans, asked, replies, pending, call>>
  BY DEF IssuesCode, CodeExpires, RevokesDevice, RevokesAccount, SwitchesFeature, ChangesTools,
     rows, lines, calls
<1>4. QED
  BY <1>1, <1>2, <1>3, Elsewhere DEF CallTypes, LineTypes

(* The connector loses its end, or answers.                                *)
LEMMA EndStep ==
  ASSUME IInv, NEW s \in Conns, LosesEnd(s) \/ Replies(s)
  PROVE  IInv'
<1> USE DEF IInv, Types
<1>1. RowTypes' /\ ClientTypes'
  BY DropsAssumption DEF LosesEnd, Replies, RowTypes, ClientTypes, rows, client
<1>2. asked' \in [Conns -> Seq(Calls)] /\ replies' \in [Conns -> Seq(Calls)]
  <2>1. CASE LosesEnd(s)
    BY <2>1 DEF LosesEnd, CallTypes
  <2>2. CASE Replies(s)
    <3>1. asked[s] \in Seq(Calls) /\ asked[s] # <<>> /\ replies[s] \in Seq(Calls)
      BY <2>2 DEF Replies, CallTypes
    <3>2. Tail(asked[s]) \in Seq(Calls) /\ Append(replies[s], Head(asked[s])) \in Seq(Calls)
      BY <3>1
    <3>3. QED
      BY <2>2, <3>2 DEF Replies, CallTypes
  <2>3. QED
    BY <2>1, <2>2
<1>3. UNCHANGED <<pinned, handler, closed, offered, registered, orphans, pending, call>> /\ held' \subseteq held
  BY DEF LosesEnd, Replies, rows, lines
<1>4. QED
  BY <1>1, <1>2, <1>3, Elsewhere DEF CallTypes, LineTypes

(* The connector connects.                                                 *)
LEMMA ConnectionStep ==
  ASSUME IInv, NEW s \in Conns, Connects(s)
  PROVE  IInv'
<1> USE DEF IInv, Types
<1>1. Types'
  BY DEF Connects, Goes, Open, RowTypes, ClientTypes, LineTypes, CallTypes, OneCall, rows, client, calls
<1>2. Lines'
  BY DEF Connects, Goes, At, Lines, RegisteredIsHandled, AcceptedMeetThePin, LiveIsRegistered, LineTypes, rows
<1>3. WaitingHasHandler'
  BY DEF Connects, Goes, At, WaitingHasHandler, LineTypes, calls
<1>4. QED
  BY <1>1, <1>2, <1>3

-----------------------------------------------------------------------------
(* local_mcp_connect.                                                      *)

(* Steps of a handler that goes on: calls are left as they are, and none   *)
(* waits on a connection without a handler.                                *)
LEMMA HandlerGoesOn ==
  ASSUME IInv, NEW s \in Conns, NEW place \in Open, Goes(s, place), UNCHANGED calls
  PROVE  CallTypes' /\ OneCall' /\ WaitingHasHandler'
BY DEF IInv, Types, CallTypes, OneCall, WaitingHasHandler, LineTypes, Goes, At, Open, calls

(* A handler that refuses; the connection may have been live.              *)
LEMMA DenialStep ==
  ASSUME IInv, NEW s \in Conns, Denies(s), ~At(s, "none"), RowTypes', ClientTypes', pinned' = pinned,
         UNCHANGED <<held, registered, orphans>>, \A t \in Conns \ {s} : offered'[t] = offered[t],
         offered' \in [Conns -> Schemas \cup {None}]
  PROVE  RowTypes' /\ ClientTypes' /\ LineTypes' /\ Lines'
<1> USE DEF IInv, Types, Denies, Goes, At
<1>1. LineTypes'
  BY DEF LineTypes, Open
<1>2. Lines'
  BY DEF LineTypes, Lines, RegisteredIsHandled, AcceptedMeetThePin, LiveIsRegistered
<1>3. QED
  BY <1>1, <1>2

(* A computer is paired, or authenticated, or has proved who it is.        *)
LEMMA GreetingStep ==
  ASSUME IInv, NEW s \in Conns, Pairs(s) \/ Authenticates(s) \/ Proves(s)
  PROVE  IInv'
<1> USE DEF IInv, Types
<1>1. RowTypes' /\ ClientTypes' /\ pinned' = pinned
  <2>1. Keeps(s) => stored' \in BOOLEAN
    <3>1. (s \in held) \in BOOLEAN
      OBVIOUS
    <3>2. QED
      BY <3>1, Zenon DEF Keeps
  <2>2. stored' \in BOOLEAN
    BY <2>1 DEF Pairs, Authenticates, Proves, ClientTypes, client
  <2>3. QED
    BY <2>2 DEF Pairs, Authenticates, Proves, RowTypes, ClientTypes, rows, client
<1>2. UNCHANGED <<held, offered, registered, orphans, calls>> /\ handler[s] \in {"hello", "challenged"}
  BY DEF Pairs, Authenticates, Proves, At
<1>3. CASE Denies(s)
  BY <1>1, <1>2, <1>3, DenialStep, HandlerGoesOn DEF Denies, LineTypes, At, Open
<1>4. CASE (Goes(s, "challenged") \/ Goes(s, "proved")) /\ UNCHANGED closed
  <2>1. LineTypes' /\ Lines'
    BY <1>1, <1>2, <1>4 DEF Goes, At, LineTypes, Open, Lines, RegisteredIsHandled, AcceptedMeetThePin, LiveIsRegistered
  <2>2. QED
    BY <1>1, <1>2, <1>4, <2>1, HandlerGoesOn DEF Open
<1>5. QED
  BY <1>3, <1>4 DEF Pairs, Authenticates, Proves

(* The manifest came: the connection is live, replaces another, or not.    *)
LEMMA AcceptanceStep ==
  ASSUME IInv, NEW s \in Conns, Accepts(s)
  PROVE  IInv'
<1> USE DEF IInv, Types
<1>1. /\ RowTypes' /\ ClientTypes' /\ At(s, "proved") /\ offered' = [offered EXCEPT ![s] = tools]
      /\ UNCHANGED <<held, orphans, calls>>
  BY DEF Accepts, Offers, RowTypes, ClientTypes, client
<1>2. CASE Denies(s) /\ UNCHANGED <<pinned, registered>>
  BY <1>1, <1>2, DenialStep, HandlerGoesOn DEF Denies, At, Open, LineTypes, ClientTypes
<1>3. CASE SchemaFits(tools) /\ pinned' = tools /\ (Enters(s) \/ Replaces(s) \/ Collides(s))
  <2>1. PICK place \in {"live", "replacing", "denied"} : Goes(s, place)
    BY <1>3 DEF Enters, Replaces, Collides, Denies
  <2>2. LineTypes'
    BY <1>1, <1>3, <2>1, Closing DEF Enters, Replaces, Collides, Denies, Goes, LineTypes, ClientTypes, Open
  <2>3. RegisteredIsHandled'
    BY <1>1, <1>3, <2>1 DEF Enters, Replaces, Collides, Goes, At, LineTypes, Lines, RegisteredIsHandled
  <2>4. AcceptedMeetThePin'
    BY <1>1, <1>3, <2>1, NoneAssumption DEF SchemaFits, Goes, At, LineTypes, ClientTypes, Lines, AcceptedMeetThePin
  <2>5. LiveIsRegistered'
    <3> USE <1>1 DEF Goes, At, LineTypes, Lines, LiveIsRegistered
    <3>1. CASE Enters(s)
      BY <3>1, NoneAssumption DEF Enters
    <3>2. CASE Replaces(s)
      BY <3>2 DEF Replaces, Disconnects
    <3>3. CASE Collides(s)
      BY <3>3 DEF Collides, Denies
    <3>4. QED
      BY <1>3, <3>1, <3>2, <3>3
  <2>6. QED
    BY <1>1, <2>1, <2>2, <2>3, <2>4, <2>5, HandlerGoesOn DEF Open, Lines
<1>4. QED
  BY <1>2, <1>3 DEF Accepts

(* The predecessor is closed, and the connection registered.               *)
LEMMA RegistrationStep ==
  ASSUME IInv, NEW s \in Conns, Registers(s)
  PROVE  IInv'
<1> USE DEF IInv, Types
<1>1. RowTypes' /\ ClientTypes'
  BY DEF Registers, RowTypes, ClientTypes, rows, client
<1>2. LineTypes'
  BY DEF Registers, Goes, LineTypes, Open
<1>3. Lines'
  <2> USE DEF Registers, Goes, At, LineTypes, Lines
  <2>1. RegisteredIsHandled'
    BY DEF RegisteredIsHandled
  <2>2. AcceptedMeetThePin'
    BY DEF AcceptedMeetThePin, rows
  <2>3. LiveIsRegistered'
    BY NoneAssumption DEF LiveIsRegistered
  <2>4. QED
    BY <2>1, <2>2, <2>3
<1>4. QED
  BY <1>1, <1>2, <1>3, HandlerGoesOn DEF Registers, Open

(* A reply comes, in time or not.                                          *)
LEMMA ReplyStep ==
  ASSUME IInv, NEW s \in Conns, Receives(s)
  PROVE  IInv'
<1> USE DEF IInv, Types
<1>1. RowTypes' /\ ClientTypes' /\ pinned' = pinned /\ At(s, "live")
  BY DEF Receives, RowTypes, ClientTypes, rows, client
<1>2. replies' \in [Conns -> Seq(Calls)] /\ Head(replies[s]) \in Calls
  BY DEF Receives, CallTypes
<1>3. UNCHANGED <<held, offered, registered, orphans, asked, pending>>
  BY DEF Receives
<1>4. CASE /\ call' = [call EXCEPT ![Head(replies[s])] = "answered"]
           /\ UNCHANGED <<handler, closed>>
  BY <1>1, <1>2, <1>3, <1>4, Elsewhere DEF CallTypes, LineTypes
<1>5. CASE Denies(s) /\ UNCHANGED call
  <2>1. LineTypes' /\ Lines'
    BY <1>1, <1>3, <1>5, DenialStep DEF LineTypes, At
  <2>2. CallTypes' /\ OneCall'
    BY <1>2, <1>3, <1>5 DEF CallTypes, OneCall
  <2>3. WaitingHasHandler'
    BY <1>3, <1>5 DEF WaitingHasHandler, Denies, Goes, At, LineTypes
  <2>4. QED
    BY <1>1, <2>1, <2>2, <2>3
<1>6. QED
  BY <1>4, <1>5 DEF Receives

(* A handler ends, and breaks the call that waits on its connection.       *)
LEMMA EndingStep ==
  ASSUME IInv, NEW s \in Conns, HandlerEnds(s)
  PROVE  IInv'
<1> USE DEF IInv, Types
<1>1. RowTypes' /\ ClientTypes' /\ OneCall'
  BY DEF HandlerEnds, RowTypes, ClientTypes, OneCall, rows, client
<1>2. LineTypes'
  BY DEF HandlerEnds, Goes, Unregistered, LineTypes
<1>3. CallTypes'
  BY DEF HandlerEnds, Broken, CallTypes
<1>4. Lines'
  BY DEF HandlerEnds, Goes, Unregistered, At, LineTypes, Lines, RegisteredIsHandled, AcceptedMeetThePin,
     LiveIsRegistered, rows
<1>5. WaitingHasHandler'
  BY DEF HandlerEnds, Goes, Broken, At, LineTypes, CallTypes, WaitingHasHandler
<1>6. QED
  BY <1>1, <1>2, <1>3, <1>4, <1>5

-----------------------------------------------------------------------------
(* local_mcp_call.                                                         *)

(* A call is refused, sent, or returns.                                    *)
LEMMA CallStep ==
  ASSUME IInv, NEW c \in Calls, Refuses(c) \/ Sends(c) \/ Returns(c)
  PROVE  IInv'
<1> USE DEF IInv, Types
<1>1. RowTypes' /\ ClientTypes' /\ UNCHANGED <<pinned, handler, held, offered, registered, orphans>>
  BY DEF Refuses, Sends, Returns, RowTypes, ClientTypes, rows, client, lines
<1>2. CASE Refuses(c)
  <2>1. closed' \subseteq Conns /\ closed \subseteq closed'
    BY <1>2, Closing DEF Refuses, LineTypes
  <2>2. QED
    BY <1>1, <1>2, <2>1, Elsewhere DEF Refuses, CallTypes, LineTypes
<1>3. CASE Sends(c) \/ Returns(c)
  <2>1. LineTypes' /\ Lines'
    BY <1>1, <1>3 DEF Sends, Returns, LineTypes, Lines, RegisteredIsHandled, AcceptedMeetThePin,
       LiveIsRegistered, At, lines
  <2>2. CASE Sends(c)
    <3>1. PICK s \in Conns : s = registered /\ NotBusy(s) /\
            (\/ call' = [call EXCEPT ![c] = "failed"] /\ UNCHANGED <<pending, asked>>
             \/ /\ call' = [call EXCEPT ![c] = "waiting"]
                /\ pending' = [pending EXCEPT ![s] = @ \cup {c}]
                /\ asked' = IF s \in held THEN [asked EXCEPT ![s] = Append(@, c)] ELSE asked)
      BY <2>2 DEF Sends, LineTypes
    <3>2. asked[s] \in Seq(Calls) /\ Append(asked[s], c) \in Seq(Calls)
      BY DEF CallTypes
    <3>3. CallTypes'
      <4>1. UNCHANGED replies
        BY <2>2 DEF Sends
      <4>2. call' \in [Calls -> {"idle", "waiting", "answered", "broken", "ok", "unavailable", "failed", "refused"}]
        BY <3>1 DEF CallTypes
      <4>3. asked' \in [Conns -> Seq(Calls)]
        BY <3>1, <3>2 DEF CallTypes
      <4>4. pending' \in [Conns -> SUBSET Calls]
        <5>1. pending[s] \cup {c} \in SUBSET Calls
          BY DEF CallTypes
        <5>2. QED
          BY <3>1, <5>1 DEF CallTypes
      <4>5. QED
        BY <4>1, <4>2, <4>3, <4>4 DEF CallTypes
    <3>4. OneCall'
      <4>1. pending' = pending \/ (pending'[s] = {c} /\ \A t \in Conns \ {s} : pending'[t] = pending[t])
        BY <3>1 DEF NotBusy, CallTypes
      <4>2. QED
        BY <4>1 DEF OneCall
    <3>5. ~At(s, "none")
      BY <3>1, NoneAssumption DEF Lines, RegisteredIsHandled
    <3>6. WaitingHasHandler'
      <4>1. \A t \in Conns : At(t, "none")' <=> At(t, "none")
        BY <1>1 DEF At
      <4>2. \A t \in Conns : pending[t] \subseteq pending'[t]
        BY <3>1 DEF CallTypes
      <4>3. \A d \in Calls : call'[d] = "waiting" => call[d] = "waiting" \/ d \in pending'[s]
        BY <3>1 DEF CallTypes
      <4>4. QED
        BY <3>5, <4>1, <4>2, <4>3 DEF WaitingHasHandler
    <3>7. QED
      BY <1>1, <2>1, <3>3, <3>4, <3>6
  <2>3. CASE Returns(c)
    <3>1. CallTypes'
      BY <2>3 DEF Returns, Forgets, CallTypes
    <3>2. OneCall'
      BY <2>3 DEF Returns, Forgets, OneCall
    <3>3. WaitingHasHandler'
      BY <1>1, <2>3 DEF Returns, Forgets, CallTypes, WaitingHasHandler, At
    <3>4. QED
      BY <1>1, <2>1, <3>1, <3>2, <3>3
  <2>4. QED
    BY <1>3, <2>2, <2>3
<1>4. QED
  BY <1>2, <1>3

-----------------------------------------------------------------------------
(* The invariant holds at first.                                           *)
LEMMA InvariantInit == Init => IInv
<1>1. Init => Types
  <2> SUFFICES ASSUME Init PROVE Types
    OBVIOUS
  <2>1. RowTypes /\ LineTypes /\ OneCall
    BY DEF Init, RowTypes, LineTypes, OneCall, Open
  <2>2. ClientTypes
    <3>1. (CHOOSE t \in Schemas : TRUE) \in Schemas
      BY SchemasAssumption
    <3>2. tools \in Schemas
      BY <3>1, Zenon DEF Init
    <3>3. stored \in BOOLEAN
      BY Zenon DEF Init
    <3>4. drops \in 0 .. MaxDrops
      BY DropsAssumption DEF Init
    <3>5. QED
      BY <3>2, <3>3, <3>4 DEF ClientTypes
  <2>3. CallTypes
    <3>1. <<>> \in Seq(Calls)
      OBVIOUS
    <3>2. QED
      BY <3>1 DEF Init, CallTypes
  <2>4. QED
    BY <2>1, <2>2, <2>3 DEF Types
<1>2. Init => Lines /\ WaitingHasHandler
  BY DEF Init, Lines, RegisteredIsHandled, AcceptedMeetThePin, LiveIsRegistered, WaitingHasHandler, At
<1>3. QED
  BY <1>1, <1>2 DEF IInv

(* Every step keeps it.                                                    *)
LEMMA InvariantStep == IInv /\ [Next]_vars => IInv'
<1> SUFFICES ASSUME IInv, [Next]_vars PROVE IInv'
  OBVIOUS
<1>1. ASSUME NEW s \in Conns, Connects(s) \/ LosesEnd(s) \/ Replies(s) \/ Handles(s)
      PROVE  IInv'
  BY <1>1, ConnectionStep, EndStep, GreetingStep, AcceptanceStep, RegistrationStep, ReplyStep, EndingStep
     DEF Handles
<1>2. ASSUME NEW c \in Calls, Refuses(c) \/ Sends(c) \/ Returns(c)
      PROVE  IInv'
  BY <1>2, CallStep
<1>3. CASE UNCHANGED vars
  BY <1>3 DEF vars, rows, client, lines, calls, IInv, Types, RowTypes, ClientTypes, LineTypes, CallTypes,
     OneCall, Lines, RegisteredIsHandled, AcceptedMeetThePin, LiveIsRegistered, WaitingHasHandler, At
<1>4. QED
  BY <1>1, <1>2, <1>3, AdminStep DEF Next

(* So it always holds.                                                     *)
THEOREM Invariance == Spec => []IInv
BY InvariantInit, InvariantStep, PTL DEF Spec

(* The variables have their types, and one call at a time is on its way    *)
(* over a connection.                                                      *)
THEOREM TypeCorrect == Spec => []TypeOK
BY Invariance, TypeParts, PTL

(* However connections are made, lost, replaced and refused: one that is   *)
(* live and held is the registered one or is being closed, unless it was   *)
(* overtaken; every call that waits will be told when its connection ends; *)
(* and whatever is called has the tools the computer first came with.      *)
THEOREM HubStaysConsistent == Spec => []HubConsistent
<1>1. IInv => HubConsistent
  BY DEF IInv, Lines, AcceptedMeetThePin, CallsMeetThePin, HubConsistent
<1>2. QED
  BY Invariance, <1>1, PTL
=============================================================================
