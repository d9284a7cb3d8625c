------------------------ MODULE SessionRegistryProofs ------------------------
(***************************************************************************)
(* Proofs about SessionRegistry, for every number of connections, tokens,  *)
(* parked sessions and claim slots.                                        *)
(***************************************************************************)
EXTENDS SessionRegistry, FiniteSetTheorems, TLAPS

(* A task that is claiming or owning works with a real token.              *)
TokensKnown == \A c \in Conn : pc[c] \in InClaim \cup Owning => tok[c] \in Token

IInv ==
    /\ TypeOK
    /\ TokensKnown
    /\ parked \subseteq registered
    /\ SingleOwner
    /\ AttachedIsNotParked
    /\ SlotsAreSound
    /\ ParkedBound

USE DEF States, Waiting, InClaim, Owning

(* The empty registry satisfies the invariant.                              *)
LEMMA TypeInit == Init => IInv
  <1> SUFFICES ASSUME Init PROVE IInv
    OBVIOUS
  <1>1. TypeOK /\ TokensKnown /\ parked \subseteq registered
    BY BoundsAssumption, NamesAssumption DEF Init, TypeOK, TokensKnown
  <1>2. SingleOwner /\ AttachedIsNotParked /\ SlotsAreSound
    BY DEF Init, SingleOwner, Owns, AttachedIsNotParked, SlotsAreSound
  <1>3. ParkedBound
    BY FS_EmptySet, BoundsAssumption DEF Init, ParkedBound
  <1> QED BY <1>1, <1>2, <1>3 DEF IInv

(* The lists that park, a timeout or a served claim leave are claim lists.  *)
LEMMA AbandonType ==
    ASSUME NEW q \in Seq(Conn \cup {Gone}), NEW c
    PROVE  /\ Abandon(q, c) \in Seq(Conn \cup {Gone})
           /\ Len(Abandon(q, c)) = Len(q)
           /\ DOMAIN Abandon(q, c) = DOMAIN q
           /\ \A i \in DOMAIN q : Abandon(q, c)[i] = IF q[i] = c THEN Gone ELSE q[i]
  BY DEF Abandon

(* What every use of park does to the state it touches.                     *)
LEMMA ParkFacts ==
    ASSUME IInv, NEW t \in Token, Park(t)
    PROVE  /\ registered' \in SUBSET registered
           /\ parked' \in SUBSET (parked \cup {t})
           /\ parked' \subseteq registered'
           /\ age' \in [Token -> 0 .. ResumeTtl]
           /\ tasks' \in SUBSET (tasks \cup {t})
           /\ claims' \in [Token -> Seq(Conn \cup {Gone})]
           /\ \A u \in Token : claims'[u] = claims[u] \/ claims'[u] = << >>
           /\ ParkedBound'
  <1>1. CASE t \notin registered
    <2>1. /\ claims' = [claims EXCEPT ![t] = << >>]
          /\ registered' = registered /\ parked' = parked /\ age' = age /\ tasks' = tasks
      BY <1>1 DEF Park
    <2>2. claims \in [Token -> Seq(Conn \cup {Gone})] /\ << >> \in Seq(Conn \cup {Gone})
      BY DEF IInv, TypeOK
    <2>3. /\ claims' \in [Token -> Seq(Conn \cup {Gone})]
          /\ \A u \in Token : claims'[u] = claims[u] \/ claims'[u] = << >>
      BY <2>1, <2>2
    <2> QED BY <2>1, <2>3 DEF IInv, TypeOK, ParkedBound
  <1>2. CASE t \in registered
    <2>1. PICK V \in SUBSET (parked \cup {t}) :
            /\ Cardinality((parked \cup {t}) \ V) <= MaxParked
            /\ parked' = (parked \cup {t}) \ V
            /\ registered' = registered \ V
      BY <1>2, Zenon DEF Park
    <2>2. /\ age' = [age EXCEPT ![t] = 0]
          /\ tasks' = tasks \cup {t}
          /\ claims' = claims
      BY <1>2, Zenon DEF Park
    <2>3. age' \in [Token -> 0 .. ResumeTtl]
      BY <2>2, BoundsAssumption DEF IInv, TypeOK
    <2>4. parked' \subseteq registered'
      BY <1>2, <2>1 DEF IInv
    <2>5. claims \in [Token -> Seq(Conn \cup {Gone})]
      BY DEF IInv, TypeOK
    <2> QED BY <2>1, <2>2, <2>3, <2>4, <2>5 DEF ParkedBound
  <1> QED BY <1>1, <1>2

(* Every operation keeps the types.                                         *)
LEMMA TypeStep == IInv /\ [Next]_vars => TypeOK'
  <1> SUFFICES ASSUME IInv, [Next]_vars PROVE TypeOK'
    OBVIOUS
  <1> USE DEF TypeOK
  <1>0. TypeOK /\ << >> \in Seq(Conn \cup {Gone})
    BY DEF IInv
  <1>1. ASSUME NEW c \in Conn, ConnNext(c) PROVE TypeOK'
    <2>0. pc[c] \in InClaim \cup Owning => tok[c] \in Token
      BY DEF IInv, TokensKnown
    <2>1. CASE Connect(c)
      BY <1>0, <2>0, <2>1 DEF Connect
    <2>2. CASE \E t \in Token : ClaimLookup(c, t)
      <3>1. PICK t \in Token : ClaimLookup(c, t)
        BY <2>2
      <3>2. /\ registered' = Live /\ parked' = parked \cap Live /\ tasks' = tasks
            /\ reply' = reply /\ age' = age /\ claims' = claims
        BY <3>1 DEF ClaimLookup
      <3>3. pc' \in [Conn -> States] /\ tok' \in [Conn -> Token \cup {NoToken}]
        BY <1>0, <3>1 DEF ClaimLookup
      <3> QED BY <1>0, <3>2, <3>3 DEF Live
    <2>3. CASE ClaimSend(c)
      BY <1>0, <2>0, <2>3 DEF ClaimSend
    <2>4. CASE ClaimRefused(c)
      BY <1>0, <2>0, <2>4 DEF ClaimRefused
    <2>5. CASE ClaimTimeout(c)
      BY <1>0, <2>0, <2>5, AbandonType DEF ClaimTimeout
    <2>6. CASE ClaimAccept(c)
      BY <1>0, <2>0, <2>6 DEF ClaimAccept
    <2>7. CASE ClaimMismatch(c)
      <3>1. Park(tok[c]) /\ tok[c] \in Token
        BY <2>0, <2>7 DEF ClaimMismatch
      <3>2. /\ registered' \in SUBSET registered /\ parked' \in SUBSET (parked \cup {tok[c]})
            /\ tasks' \in SUBSET (tasks \cup {tok[c]})
            /\ age' \in [Token -> 0 .. ResumeTtl]
            /\ claims' \in [Token -> Seq(Conn \cup {Gone})]
        BY <3>1, ParkFacts
      <3> QED BY <1>0, <2>7, <3>1, <3>2 DEF ClaimMismatch
    <2>8. CASE \E t \in Token : AttachFresh(c, t) \/ AttachFailsFresh(c, t)
      <3>1. PICK t \in Token : AttachFresh(c, t) \/ AttachFailsFresh(c, t)
        BY <2>8
      <3>2. pc' \in [Conn -> States] /\ tok' \in [Conn -> Token \cup {NoToken}]
        BY <1>0, <3>1 DEF AttachFresh, AttachFailsFresh
      <3> QED BY <1>0, <3>1, <3>2 DEF AttachFresh, AttachFailsFresh, Register
    <2>9. CASE AttachFailsClaimed(c)
      BY <1>0, <2>0, <2>9 DEF AttachFailsClaimed, DropSession
    <2>10. CASE SocketLost(c)
      <3>1. Park(tok[c]) /\ tok[c] \in Token
        BY <2>0, <2>10 DEF SocketLost
      <3>2. /\ registered' \in SUBSET registered /\ parked' \in SUBSET (parked \cup {tok[c]})
            /\ tasks' \in SUBSET (tasks \cup {tok[c]})
            /\ age' \in [Token -> 0 .. ResumeTtl]
            /\ claims' \in [Token -> Seq(Conn \cup {Gone})]
        BY <3>1, ParkFacts
      <3> QED BY <1>0, <2>10, <3>1, <3>2 DEF SocketLost
    <2>11. CASE ConnectionEnds(c) \/ ConnectionOrphaned(c)
      <3>1. pc[c] = "attached" /\ Forget(c)
        BY <2>11 DEF ConnectionEnds, ConnectionOrphaned
      <3> QED BY <1>0, <2>0, <3>1 DEF Forget, Unregister, DropSession
    <2>12. CASE TakeClaim(c)
      BY <1>0, <2>0, <2>12 DEF TakeClaim
    <2>13. CASE HandOver(c)
      BY <1>0, <2>0, <2>13 DEF HandOver, Answered
    <2>14. CASE HandOverFails(c)
      <3>1. Park(tok[c]) /\ tok[c] \in Token
        BY <2>0, <2>14 DEF HandOverFails
      <3>2. /\ registered' \in SUBSET registered /\ parked' \in SUBSET (parked \cup {tok[c]})
            /\ tasks' \in SUBSET (tasks \cup {tok[c]})
            /\ age' \in [Token -> 0 .. ResumeTtl]
            /\ claims' \in [Token -> Seq(Conn \cup {Gone})]
        BY <3>1, ParkFacts
      <3> QED BY <1>0, <2>14, <3>1, <3>2 DEF HandOverFails
    <2>15. CASE ClaimLapses(c)
      BY <1>0, <2>0, <2>15 DEF ClaimLapses
    <2>16. CASE AnswerMissed(c)
      BY <1>0, <2>0, <2>16 DEF AnswerMissed, DropSession
    <2> QED BY <1>1, <2>1, <2>2, <2>3, <2>4, <2>5, <2>6, <2>7, <2>8, <2>9, <2>10, <2>11,
               <2>12, <2>13, <2>14, <2>15, <2>16 DEF ConnNext
  <1>2. ASSUME NEW t \in Token, ParkedNext(t) PROVE TypeOK'
    <2>1. CASE ParkedClaim(t)
      <3>1. /\ claims[t] \in Seq(Conn \cup {Gone})
            /\ Head(claims[t]) \in Conn \cup {Gone}
            /\ Tail(claims[t]) \in Seq(Conn \cup {Gone})
        BY <1>0, <2>1 DEF ParkedClaim
      <3>2. pc' \in [Conn -> States] /\ tasks' \in SUBSET Token
        BY <1>0, <2>1, <3>1 DEF ParkedClaim, Answered
      <3> QED BY <1>0, <2>1, <3>1, <3>2 DEF ParkedClaim
    <2>2. CASE ParkedEvicted(t)
      BY <1>0, <2>2 DEF ParkedEvicted
    <2>3. CASE ParkedEnds(t)
      BY <1>0, <2>3 DEF ParkedEnds, Unregister, DropSession
    <2> QED BY <1>2, <2>1, <2>2, <2>3 DEF ParkedNext, ParkedExpires
  <1>3. CASE Tick
    BY <1>0, <1>3, BoundsAssumption DEF Tick
  <1>4. CASE UNCHANGED vars
    BY <1>0, <1>4 DEF vars
  <1> QED BY <1>1, <1>2, <1>3, <1>4 DEF Next

(* Every operation keeps ownership single and attached sessions unparked.   *)
LEMMA OwnerStep ==
    IInv /\ [Next]_vars =>
       TokensKnown' /\ (parked \subseteq registered)' /\ SingleOwner' /\ AttachedIsNotParked'
  <1> DEFINE Goal == TokensKnown' /\ (parked \subseteq registered)' /\ SingleOwner' /\ AttachedIsNotParked'
  <1> SUFFICES ASSUME IInv, [Next]_vars PROVE Goal
    OBVIOUS
  <1>0. /\ TypeOK /\ TokensKnown /\ parked \subseteq registered
        /\ SingleOwner /\ AttachedIsNotParked /\ SlotsAreSound
    BY DEF IInv
  <1> USE DEF TypeOK, TokensKnown, SingleOwner, AttachedIsNotParked, Owns
  <1>1. ASSUME NEW c \in Conn, ConnNext(c) PROVE Goal
    <2>0. pc[c] \in InClaim \cup Owning => tok[c] \in Token
      BY <1>0
    <2>1. CASE Connect(c)
      BY <1>0, <2>0, <2>1 DEF Connect
    <2>2. CASE \E t \in Token : ClaimLookup(c, t)
      <3>1. PICK t \in Token : ClaimLookup(c, t)
        BY <2>2
      <3>2. /\ registered' = Live /\ parked' = parked \cap Live
            /\ tasks' = tasks
        BY <3>1 DEF ClaimLookup
      <3>3. \/ pc' = [pc EXCEPT ![c] = "claiming"] /\ tok' = [tok EXCEPT ![c] = t]
            \/ pc' = [pc EXCEPT ![c] = "fresh"] /\ tok' = tok
        BY <3>1 DEF ClaimLookup
      <3>4. pc[c] = "idle"
        BY <3>1 DEF ClaimLookup
      <3>5. /\ \A d \in Conn \ {c} : pc'[d] = pc[d] /\ tok'[d] = tok[d]
            /\ pc'[c] \in {"claiming", "fresh"} /\ (pc'[c] = "claiming" => tok'[c] = t)
        BY <1>0, <3>3
      <3>6. TokensKnown' /\ (parked \subseteq registered)'
        BY <1>0, <3>2, <3>5
      <3>7. SingleOwner'
        <4>1. \A d \in Conn : pc'[d] \in Owning => pc[d] \in Owning /\ tok'[d] = tok[d]
          BY <3>5
        <4> QED BY <1>0, <3>2, <4>1
      <3>8. AttachedIsNotParked'
        BY <1>0, <3>2, <3>5
      <3> QED BY <3>6, <3>7, <3>8
    <2>3. CASE ClaimSend(c)
      BY <1>0, <2>0, <2>3 DEF ClaimSend
    <2>4. CASE ClaimRefused(c)
      BY <1>0, <2>0, <2>4 DEF ClaimRefused
    <2>5. CASE ClaimTimeout(c)
      BY <1>0, <2>0, <2>5 DEF ClaimTimeout
    <2>6. CASE ClaimAccept(c)
      BY <1>0, <2>0, <2>6 DEF ClaimAccept
    <2>7. CASE ClaimMismatch(c)
      <3>1. Park(tok[c]) /\ tok[c] \in Token
        BY <2>0, <2>7 DEF ClaimMismatch
      <3> QED BY <1>0, <2>0, <2>7, <3>1, ParkFacts DEF ClaimMismatch
    <2>8. CASE \E t \in Token : AttachFresh(c, t) \/ AttachFailsFresh(c, t)
      <3>1. PICK t \in Token : AttachFresh(c, t) \/ AttachFailsFresh(c, t)
        BY <2>8
      <3>2. /\ t \notin registered /\ t \notin tasks
            /\ \A d \in Conn : tok[d] # t
        BY <3>1 DEF AttachFresh, AttachFailsFresh, Unused, Held
      <3>3. /\ registered' = registered \cup {t}
            /\ parked' = parked /\ tasks' = tasks /\ pc[c] = "fresh"
        BY <3>1 DEF AttachFresh, AttachFailsFresh, Register
      <3>4. \/ pc' = [pc EXCEPT ![c] = "attached"] /\ tok' = [tok EXCEPT ![c] = t]
            \/ pc' = [pc EXCEPT ![c] = "idle"] /\ tok' = tok
        BY <3>1 DEF AttachFresh, AttachFailsFresh
      <3>5. /\ \A d \in Conn \ {c} : pc'[d] = pc[d] /\ tok'[d] = tok[d]
            /\ \/ pc'[c] = "attached" /\ tok'[c] = t
               \/ pc'[c] = "idle"
        BY <1>0, <3>4
      <3>6. TokensKnown' /\ (parked \subseteq registered)'
        BY <1>0, <3>3, <3>5
      <3>7. SingleOwner'
        <4>1. \A d \in Conn \ {c} : tok'[d] # t
          BY <3>2, <3>5
        <4>2. pc'[c] \in Owning => tok'[c] = t /\ t \notin tasks'
          BY <3>2, <3>3, <3>5
        <4>3. \A d \in Conn \ {c} : pc'[d] \in Owning => pc[d] \in Owning /\ tok'[d] = tok[d]
          BY <3>5
        <4> QED BY <1>0, <3>3, <4>1, <4>2, <4>3
      <3>8. AttachedIsNotParked'
        BY <1>0, <3>2, <3>3, <3>5
      <3> QED BY <3>6, <3>7, <3>8
    <2>9. CASE AttachFailsClaimed(c)
      BY <1>0, <2>0, <2>9 DEF AttachFailsClaimed
    <2>10. CASE SocketLost(c)
      <3>1. Park(tok[c]) /\ tok[c] \in Token
        BY <2>0, <2>10 DEF SocketLost
      <3> QED BY <1>0, <2>0, <2>10, <3>1, ParkFacts DEF SocketLost
    <2>11. CASE ConnectionEnds(c) \/ ConnectionOrphaned(c)
      <3>1. /\ registered' = registered \ {tok[c]} /\ parked' = parked \ {tok[c]}
            /\ tasks' = tasks /\ pc'[c] = "idle"
            /\ \A d \in Conn \ {c} : pc'[d] = pc[d] /\ tok'[d] = tok[d]
        BY <1>0, <2>11 DEF ConnectionEnds, ConnectionOrphaned, Forget, Unregister
      <3>2. \A d \in Conn : pc'[d] \in Owning \cup InClaim =>
                              d # c /\ pc'[d] = pc[d] /\ tok'[d] = tok[d]
        BY <3>1
      <3> QED BY <1>0, <3>1, <3>2
    <2>12. CASE TakeClaim(c)
      BY <1>0, <2>0, <2>12 DEF TakeClaim
    <2>13. CASE HandOver(c)
      BY <1>0, <2>0, <2>13 DEF HandOver, Answered, SlotsAreSound
    <2>14. CASE HandOverFails(c)
      <3>1. Park(tok[c]) /\ tok[c] \in Token
        BY <2>0, <2>14 DEF HandOverFails
      <3> QED BY <1>0, <2>0, <2>14, <3>1, ParkFacts DEF HandOverFails
    <2>15. CASE ClaimLapses(c)
      BY <1>0, <2>0, <2>15 DEF ClaimLapses
    <2>16. CASE AnswerMissed(c)
      BY <1>0, <2>0, <2>16 DEF AnswerMissed
    <2> QED BY <1>1, <2>1, <2>2, <2>3, <2>4, <2>5, <2>6, <2>7, <2>8, <2>9, <2>10, <2>11,
               <2>12, <2>13, <2>14, <2>15, <2>16 DEF ConnNext
  <1>2. ASSUME NEW t \in Token, ParkedNext(t) PROVE Goal
    <2>1. CASE ParkedClaim(t)
      BY <1>0, <2>1 DEF ParkedClaim, Answered, SlotsAreSound
    <2>2. CASE ParkedEvicted(t)
      BY <1>0, <2>2 DEF ParkedEvicted
    <2>3. CASE ParkedEnds(t)
      BY <1>0, <2>3 DEF ParkedEnds, Unregister
    <2> QED BY <1>2, <2>1, <2>2, <2>3 DEF ParkedNext, ParkedExpires
  <1>3. CASE Tick
    BY <1>0, <1>3 DEF Tick
  <1>4. CASE UNCHANGED vars
    BY <1>0, <1>4 DEF vars
  <1> QED BY <1>1, <1>2, <1>3, <1>4 DEF Next

(* A step of a connection that neither waits for an answer nor owes one     *)
(* leaves every slot sound, even when a session and its channel are dropped.*)
LEMMA SlotsKept ==
    ASSUME IInv, NEW c \in Conn, pc[c] \notin Waiting, reply[c] = Gone, reply' = reply,
           \A d \in Conn \ {c} : pc'[d] = pc[d] /\ tok'[d] = tok[d],
           \A u \in Token : claims'[u] = claims[u] \/ claims'[u] = << >>
    PROVE  SlotsAreSound'
  <1>0. TypeOK /\ SlotsAreSound
    BY DEF IInv
  <1>1. ASSUME NEW t \in Token, NEW i \in DOMAIN claims'[t], claims'[t][i] # Gone
        PROVE  /\ pc'[claims'[t][i]] \in Waiting
               /\ tok'[claims'[t][i]] = t
               /\ \A j \in DOMAIN claims'[t] : claims'[t][i] = claims'[t][j] => i = j
               /\ \A o \in Conn : reply'[o] # claims'[t][i]
    <2>1. claims'[t] = claims[t]
      BY <1>1
    <2>2. claims[t][i] \in Conn
      BY <1>0, <1>1, <2>1 DEF TypeOK
    <2> QED BY <1>0, <1>1, <2>1, <2>2 DEF SlotsAreSound
  <1>2. ASSUME NEW o \in Conn, reply'[o] # Gone
        PROVE  pc'[o] = "handing" /\ pc'[reply'[o]] \in Waiting /\ tok'[reply'[o]] = tok'[o]
    BY <1>0, <1>2 DEF SlotsAreSound, TypeOK
  <1> QED BY <1>1, <1>2 DEF SlotsAreSound

(* Every operation keeps the reply slots sound.                             *)
LEMMA SlotsStep == IInv /\ [Next]_vars => SlotsAreSound'
  <1> SUFFICES ASSUME IInv, [Next]_vars PROVE SlotsAreSound'
    OBVIOUS
  <1>0. /\ TypeOK /\ TokensKnown /\ SingleOwner /\ SlotsAreSound
    BY DEF IInv
  <1> USE NamesAssumption DEF TypeOK, SlotsAreSound
  <1>1. ASSUME NEW c \in Conn, ConnNext(c) PROVE SlotsAreSound'
    <2>0. pc[c] \in InClaim \cup Owning => tok[c] \in Token
      BY <1>0 DEF TokensKnown
    <2>1. CASE Connect(c)
      BY <1>0, <2>0, <2>1 DEF Connect
    <2>2. CASE \E t \in Token : ClaimLookup(c, t)
      <3>1. /\ pc[c] \notin Waiting /\ reply[c] = Gone /\ reply' = reply
            /\ \A d \in Conn \ {c} : pc'[d] = pc[d] /\ tok'[d] = tok[d]
            /\ claims' = claims
        BY <1>0, <2>2 DEF ClaimLookup
      <3> QED BY <3>1, SlotsKept
    <2>3. CASE ClaimSend(c)
      BY <1>0, <2>0, <2>3 DEF ClaimSend
    <2>4. CASE ClaimRefused(c)
      BY <1>0, <2>0, <2>4 DEF ClaimRefused, Awaited
    <2>5. CASE ClaimTimeout(c)
      <3>1. /\ claims[tok[c]] \in Seq(Conn \cup {Gone}) /\ tok[c] \in Token
            /\ pc[c] \in Waiting
        BY <1>0, <2>0, <2>5 DEF ClaimTimeout
      <3> DEFINE q == Abandon(claims[tok[c]], c)
      <3>2. /\ DOMAIN q = DOMAIN claims[tok[c]]
            /\ \A i \in DOMAIN q : q[i] = IF claims[tok[c]][i] = c THEN Gone
                                                            ELSE claims[tok[c]][i]
        BY <3>1, AbandonType
      <3>3. \A t \in Token : claims'[t] = IF t = tok[c] THEN q ELSE claims[t]
        BY <1>0, <2>5, <3>1 DEF ClaimTimeout
      <3> HIDE DEF q
      <3>4. /\ \A d \in Conn \ {c} : pc'[d] = pc[d] /\ tok'[d] = tok[d]
            /\ \A o \in Conn : reply'[o] = IF reply[o] = c THEN Gone ELSE reply[o]
        BY <1>0, <2>5 DEF ClaimTimeout
      <3>5. ASSUME NEW t \in Token, NEW i \in DOMAIN claims'[t], claims'[t][i] # Gone
            PROVE  /\ claims'[t][i] = claims[t][i] /\ claims[t][i] # c
                   /\ DOMAIN claims'[t] = DOMAIN claims[t]
                   /\ claims[t][i] \in Conn
        <4>1. CASE t = tok[c]
          BY <1>0, <3>2, <3>3, <3>5, <4>1
        <4>2. CASE t # tok[c]
          BY <1>0, <3>1, <3>3, <3>5, <4>2
        <4> QED BY <4>1, <4>2
      <3>6. ASSUME NEW t \in Token, NEW i \in DOMAIN claims'[t], claims'[t][i] # Gone
            PROVE  /\ pc'[claims'[t][i]] \in Waiting
                   /\ tok'[claims'[t][i]] = t
                   /\ \A j \in DOMAIN claims'[t] : claims'[t][i] = claims'[t][j] => i = j
                   /\ \A o \in Conn : reply'[o] # claims'[t][i]
        BY <1>0, <3>4, <3>5, <3>6
      <3>7. ASSUME NEW o \in Conn, reply'[o] # Gone
            PROVE  pc'[o] = "handing" /\ pc'[reply'[o]] \in Waiting /\ tok'[reply'[o]] = tok'[o]
        BY <1>0, <3>1, <3>4, <3>7
      <3> QED BY <3>6, <3>7
    <2>6. CASE ClaimAccept(c)
      BY <1>0, <2>0, <2>6 DEF ClaimAccept
    <2>7. CASE ClaimMismatch(c)
      <3>1. Park(tok[c]) /\ tok[c] \in Token
        BY <2>0, <2>7 DEF ClaimMismatch
      <3>2. /\ pc[c] \notin Waiting /\ reply[c] = Gone /\ reply' = reply
            /\ \A d \in Conn \ {c} : pc'[d] = pc[d] /\ tok'[d] = tok[d]
        BY <1>0, <2>7 DEF ClaimMismatch
      <3>3. \A u \in Token : claims'[u] = claims[u] \/ claims'[u] = << >>
        BY <3>1, ParkFacts
      <3> QED BY <3>2, <3>3, SlotsKept
    <2>8. CASE \E t \in Token : AttachFresh(c, t) \/ AttachFailsFresh(c, t)
      <3>1. /\ pc[c] \notin Waiting /\ reply[c] = Gone /\ reply' = reply
            /\ \A d \in Conn \ {c} : pc'[d] = pc[d] /\ tok'[d] = tok[d]
            /\ claims' = claims
        BY <1>0, <2>8 DEF AttachFresh, AttachFailsFresh
      <3> QED BY <3>1, SlotsKept
    <2>9. CASE AttachFailsClaimed(c)
      <3>1. /\ pc[c] \notin Waiting /\ reply[c] = Gone /\ reply' = reply
            /\ \A e \in Conn \ {c} : pc'[e] = pc[e] /\ tok'[e] = tok[e]
        BY <1>0, <2>9 DEF AttachFailsClaimed
      <3>2. \A u \in Token : claims'[u] = claims[u] \/ claims'[u] = << >>
        BY <1>0, <2>0, <2>9 DEF AttachFailsClaimed, DropSession
      <3> QED BY <3>1, <3>2, SlotsKept
    <2>10. CASE SocketLost(c)
      <3>1. Park(tok[c]) /\ tok[c] \in Token
        BY <2>0, <2>10 DEF SocketLost
      <3>2. /\ pc[c] \notin Waiting /\ reply[c] = Gone /\ reply' = reply
            /\ \A d \in Conn \ {c} : pc'[d] = pc[d] /\ tok'[d] = tok[d]
        BY <1>0, <2>10 DEF SocketLost
      <3>3. \A u \in Token : claims'[u] = claims[u] \/ claims'[u] = << >>
        BY <3>1, ParkFacts
      <3> QED BY <3>2, <3>3, SlotsKept
    <2>11. CASE ConnectionEnds(c) \/ ConnectionOrphaned(c)
      <3>1. /\ pc[c] \notin Waiting /\ reply[c] = Gone /\ reply' = reply
            /\ \A e \in Conn \ {c} : pc'[e] = pc[e] /\ tok'[e] = tok[e]
        BY <1>0, <2>11 DEF ConnectionEnds, ConnectionOrphaned, Forget, Unregister
      <3>2. \A u \in Token : claims'[u] = claims[u] \/ claims'[u] = << >>
        BY <1>0, <2>0, <2>11 DEF ConnectionEnds, ConnectionOrphaned, Forget, Unregister, DropSession
      <3> QED BY <3>1, <3>2, SlotsKept
    <2>12. CASE TakeClaim(c)
      BY <1>0, <2>0, <2>12 DEF TakeClaim
    <2>13. CASE HandOver(c)
      <3> DEFINE r == reply[c]
      <3>1. /\ r \in Conn /\ pc[c] = "handing" /\ pc[r] \in Waiting /\ r # c /\ r # Gone
            /\ tok[r] = tok[c]
        BY <1>0, <2>13 DEF HandOver
      <3>2. /\ pc' = [pc EXCEPT ![c] = "idle", ![r] = Answered(r)]
            /\ tok' = [tok EXCEPT ![c] = NoToken]
            /\ reply' = [reply EXCEPT ![c] = Gone]
            /\ claims' = claims
        BY <2>13 DEF HandOver
      <3>3. \A o \in Conn : o # c => reply[o] # r
        BY <1>0, <3>1 DEF SingleOwner, Owns
      <3>4. \A o \in Conn : reply'[o] = IF o = c THEN Gone ELSE reply[o]
        BY <1>0, <3>2
      <3>5. \A d \in Conn : /\ d # c /\ d # r => pc'[d] = pc[d]
                            /\ d # c => tok'[d] = tok[d]
        BY <1>0, <3>2
      <3> HIDE DEF r
      <3>6. ASSUME NEW t \in Token, NEW i \in DOMAIN claims'[t], claims'[t][i] # Gone
            PROVE  /\ pc'[claims'[t][i]] \in Waiting
                   /\ tok'[claims'[t][i]] = t
                   /\ \A j \in DOMAIN claims'[t] : claims'[t][i] = claims'[t][j] => i = j
                   /\ \A o \in Conn : reply'[o] # claims'[t][i]
        <4>1. claims[t][i] \in Conn /\ claims[t][i] # r /\ claims[t][i] # c
          BY <1>0, <3>1, <3>2, <3>6 DEF r
        <4> QED BY <1>0, <3>2, <3>4, <3>5, <3>6, <4>1
      <3>7. ASSUME NEW o \in Conn, reply'[o] # Gone
            PROVE  pc'[o] = "handing" /\ pc'[reply'[o]] \in Waiting /\ tok'[reply'[o]] = tok'[o]
        BY <1>0, <3>1, <3>3, <3>4, <3>5, <3>7
      <3> QED BY <3>6, <3>7
    <2>14. CASE HandOverFails(c)
      <3>1. Park(tok[c]) /\ tok[c] \in Token
        BY <2>0, <2>14 DEF HandOverFails
      <3>2. /\ pc[c] \notin Waiting /\ reply[c] = Gone /\ reply' = reply
            /\ \A d \in Conn \ {c} : pc'[d] = pc[d] /\ tok'[d] = tok[d]
        BY <1>0, <2>14 DEF HandOverFails
      <3>3. \A u \in Token : claims'[u] = claims[u] \/ claims'[u] = << >>
        BY <3>1, ParkFacts
      <3> QED BY <3>2, <3>3, SlotsKept
    <2>15. CASE ClaimLapses(c)
      BY <1>0, <2>0, <2>15 DEF ClaimLapses
    <2>16. CASE AnswerMissed(c)
      <3>1. /\ pc[c] \notin Waiting /\ reply[c] = Gone /\ reply' = reply
            /\ \A e \in Conn \ {c} : pc'[e] = pc[e] /\ tok'[e] = tok[e]
        BY <1>0, <2>16 DEF AnswerMissed
      <3>2. \A u \in Token : claims'[u] = claims[u] \/ claims'[u] = << >>
        BY <1>0, <2>0, <2>16 DEF AnswerMissed, DropSession
      <3> QED BY <3>1, <3>2, SlotsKept
    <2> QED BY <1>1, <2>1, <2>2, <2>3, <2>4, <2>5, <2>6, <2>7, <2>8, <2>9, <2>10, <2>11,
               <2>12, <2>13, <2>14, <2>15, <2>16 DEF ConnNext
  <1>2. ASSUME NEW t \in Token, ParkedNext(t) PROVE SlotsAreSound'
    <2>1. CASE ParkedClaim(t)
      <3>1. /\ claims[t] \in Seq(Conn \cup {Gone}) /\ claims[t] # << >>
            /\ \A u \in Token : claims'[u] = IF u = t THEN Tail(claims[t]) ELSE claims[u]
            /\ tok' = tok /\ reply' = reply
            /\ \A d \in Conn : d # Head(claims[t]) => pc'[d] = pc[d]
            /\ Head(claims[t]) = Gone => pc' = pc
        BY <1>0, <2>1 DEF ParkedClaim
      <3>2. \A i \in DOMAIN Tail(claims[t]) :
               i + 1 \in DOMAIN claims[t] /\ Tail(claims[t])[i] = claims[t][i + 1]
        BY <3>1
      <3>3. PICK h : h = Head(claims[t])
        OBVIOUS
      <3>4. 1 \in DOMAIN claims[t] /\ h = claims[t][1] /\ h \in Conn \cup {Gone}
        BY <3>1, <3>3
      <3>5. ASSUME NEW u \in Token, NEW i \in DOMAIN claims'[u], claims'[u][i] # Gone
            PROVE  /\ claims'[u][i] # h
                   /\ pc'[claims'[u][i]] \in Waiting
                   /\ tok'[claims'[u][i]] = u
                   /\ \A j \in DOMAIN claims'[u] : claims'[u][i] = claims'[u][j] => i = j
                   /\ \A o \in Conn : reply'[o] # claims'[u][i]
        <4>1. CASE u = t
          <5>0. claims'[u] = Tail(claims[t])
            BY <3>1, <4>1
          <5>1. /\ i \in Nat /\ i + 1 \in DOMAIN claims[t] /\ claims'[u][i] = claims[t][i + 1]
                /\ \A j \in DOMAIN claims'[u] : j \in Nat /\ j + 1 \in DOMAIN claims[t]
                                              /\ claims'[u][j] = claims[t][j + 1]
            <6>1. DOMAIN Tail(claims[t]) \subseteq Nat
              BY <3>1
            <6> QED BY <3>2, <3>5, <5>0, <6>1
          <5>2. claims[t][i + 1] \in Conn /\ claims[t][i + 1] # h
            <6>1. claims[t][i + 1] \in Conn \cup {Gone} /\ i + 1 # 1
              <7>1. i # 0
                BY <3>1, <3>5, <5>0
              <7> QED BY <3>1, <5>1, <7>1
            <6>2. claims[t][i + 1] # Gone
              BY <3>5, <5>1
            <6>3. claims[t][i + 1] = claims[t][1] => i + 1 = 1
              BY <1>0, <3>4, <5>1, <6>2
            <6> QED BY <3>4, <6>1, <6>2, <6>3
          <5> QED BY <1>0, <3>1, <3>3, <3>5, <4>1, <5>1, <5>2
        <4>2. CASE u # t
          <5>1. claims'[u] = claims[u] /\ claims[u][i] \in Conn
            BY <1>0, <3>1, <3>5, <4>2
          <5>2. claims[u][i] # h
            BY <1>0, <3>4, <3>5, <4>2, <5>1
          <5> QED BY <1>0, <3>1, <3>3, <3>5, <5>1, <5>2
        <4> QED BY <4>1, <4>2
      <3>6. ASSUME NEW o \in Conn, reply'[o] # Gone
            PROVE  pc'[o] = "handing" /\ pc'[reply'[o]] \in Waiting /\ tok'[reply'[o]] = tok'[o]
        BY <1>0, <3>1, <3>3, <3>4, <3>6
      <3> QED BY <3>5, <3>6
    <2>2. CASE ParkedEvicted(t)
      BY <1>0, <2>2 DEF ParkedEvicted
    <2>3. CASE ParkedEnds(t)
      BY <1>0, <2>3 DEF ParkedEnds, DropSession
    <2> QED BY <1>2, <2>1, <2>2, <2>3 DEF ParkedNext, ParkedExpires
  <1>3. CASE Tick
    BY <1>0, <1>3 DEF Tick
  <1>4. CASE UNCHANGED vars
    BY <1>0, <1>4 DEF vars
  <1> QED BY <1>1, <1>2, <1>3, <1>4 DEF Next

(* parked only grows in park, which evicts down to MAX_PARKED.              *)
LEMMA BoundStep == IInv /\ [Next]_vars => ParkedBound'
  <1> SUFFICES ASSUME IInv, [Next]_vars PROVE ParkedBound'
    OBVIOUS
  <1>0. /\ TypeOK /\ ParkedBound /\ IsFiniteSet(parked) /\ Cardinality(parked) \in Nat
    BY FS_Subset, FS_CardinalityType, NamesAssumption DEF IInv, TypeOK
  <1>1. ASSUME parked' \subseteq parked PROVE ParkedBound'
    <2>1. Cardinality(parked') <= Cardinality(parked) /\ Cardinality(parked') \in Nat
      BY <1>0, <1>1, FS_Subset, FS_CardinalityType
    <2> QED BY <1>0, <2>1, BoundsAssumption DEF ParkedBound
  <1>2. ASSUME NEW c \in Conn, ConnNext(c) PROVE ParkedBound'
    <2>0. pc[c] \in InClaim \cup Owning => tok[c] \in Token
      BY DEF IInv, TokensKnown
    <2>1. CASE ClaimMismatch(c) \/ SocketLost(c) \/ HandOverFails(c)
      BY <2>0, <2>1, ParkFacts DEF ClaimMismatch, SocketLost, HandOverFails
    <2>2. CASE ~(ClaimMismatch(c) \/ SocketLost(c) \/ HandOverFails(c))
      <3>1. parked' \subseteq parked
        BY <1>2, <2>2 DEF ConnNext, Connect, ClaimLookup, ClaimSend, ClaimRefused,
             ClaimLapses, ClaimTimeout, AnswerMissed, ClaimAccept, AttachFresh,
             AttachFailsFresh, AttachFailsClaimed,
             ConnectionEnds, ConnectionOrphaned, Forget, Unregister, TakeClaim, HandOver
      <3> QED BY <1>1, <3>1
    <2> QED BY <2>1, <2>2
  <1>3. ASSUME NEW t \in Token, ParkedNext(t) PROVE ParkedBound'
    BY <1>1, <1>3 DEF ParkedNext, ParkedExpires, ParkedClaim, ParkedEvicted, ParkedEnds,
         Unregister
  <1>4. CASE Tick \/ UNCHANGED vars
    BY <1>1, <1>4 DEF Tick, vars
  <1> QED BY <1>2, <1>3, <1>4 DEF Next

(* The inductive invariant: types, the tokens tasks work with, and the      *)
(* soundness of the reply slots, which is what makes a hand-over move a     *)
(* session instead of copying it.                                           *)
THEOREM Inductive == Spec => []IInv
  <1>1. Init => IInv
    BY TypeInit
  <1>2. IInv /\ [Next]_vars => IInv'
    BY TypeStep, OwnerStep, SlotsStep, BoundStep DEF IInv
  <1> QED BY <1>1, <1>2, PTL DEF Spec

(* Every variable keeps its type.                                           *)
THEOREM TypeCorrect == Spec => []TypeOK
  <1>1. IInv => TypeOK
    BY DEF IInv
  <1> QED BY <1>1, Inductive, PTL

(* No two tasks ever own the same session (resume.rs, "Every session is     *)
(* owned by exactly one task at a time"), for any number of sockets.        *)
THEOREM OneOwner == Spec => []SingleOwner
  <1>1. IInv => SingleOwner
    BY DEF IInv
  <1> QED BY <1>1, Inductive, PTL

(* A reply slot is answered at most once and with the session asked for.    *)
THEOREM SlotsSound == Spec => []SlotsAreSound
  <1>1. IInv => SlotsAreSound
    BY DEF IInv
  <1> QED BY <1>1, Inductive, PTL

(* At most MAX_PARKED entries are ever parked.                              *)
THEOREM ParkedBounded == Spec => []ParkedBound
  <1>1. IInv => ParkedBound
    BY DEF IInv
  <1> QED BY <1>1, Inductive, PTL

(* No step of another task removes the entry of an attached connection.     *)
THEOREM InUseIsKept == Spec => InUseKept
  <1> DEFINE Kept(c) ==
        pc[c] = "attached" /\ pc'[c] = "attached" /\ tok[c] \in registered
           => tok[c] \in registered'
  <1>1. ASSUME IInv, [Next]_vars, NEW c \in Conn PROVE Kept(c)
    <2> SUFFICES ASSUME pc[c] = "attached", pc'[c] = "attached", tok[c] \in registered
                 PROVE  tok[c] \in registered'
      OBVIOUS
    <2>0. /\ TypeOK /\ TokensKnown /\ SingleOwner /\ AttachedIsNotParked
          /\ tok[c] \in Token
      BY <1>1 DEF IInv, TokensKnown
    <2> USE DEF TypeOK, TokensKnown, SingleOwner, AttachedIsNotParked, Owns
    <2>1. ASSUME NEW d \in Conn, ConnNext(d) PROVE tok[c] \in registered'
      <3>0. pc[d] \in InClaim \cup Owning => tok[d] \in Token
        BY <2>0
      <3>1. CASE ClaimMismatch(d) \/ SocketLost(d) \/ HandOverFails(d)
        <4>1. Park(tok[d]) /\ tok[d] \in Token /\ pc[d] \in Owning /\ d # c
          BY <2>0, <3>0, <3>1 DEF ClaimMismatch, SocketLost, HandOverFails
        <4>2. tok[c] # tok[d]
          BY <2>0, <4>1
        <4>3. \A u \in registered : u \notin registered' => u \in parked \cup {tok[d]}
          BY <4>1, Zenon DEF Park
        <4> QED BY <2>0, <4>2, <4>3
      <3>2. CASE \E t \in Token : ClaimLookup(d, t)
        BY <2>0, <3>2 DEF ClaimLookup, Live
      <3>3. CASE ConnectionEnds(d) \/ ConnectionOrphaned(d)
        BY <2>0, <3>3 DEF ConnectionEnds, ConnectionOrphaned, Forget, Unregister
      <3>4. CASE \/ Connect(d) \/ ClaimSend(d) \/ ClaimRefused(d) \/ ClaimTimeout(d)
                 \/ ClaimLapses(d) \/ AnswerMissed(d)
                 \/ ClaimAccept(d) \/ AttachFailsClaimed(d) \/ TakeClaim(d) \/ HandOver(d)
                 \/ \E t \in Token : AttachFresh(d, t) \/ AttachFailsFresh(d, t)
        BY <3>4 DEF Connect, ClaimSend, ClaimRefused, ClaimTimeout, ClaimAccept,
             ClaimLapses, AnswerMissed,
             AttachFailsClaimed, TakeClaim, HandOver, AttachFresh, AttachFailsFresh, Register
      <3> QED BY <2>1, <3>1, <3>2, <3>3, <3>4 DEF ConnNext
    <2>2. ASSUME NEW t \in Token, ParkedNext(t) PROVE tok[c] \in registered'
      BY <2>0, <2>2 DEF ParkedNext, ParkedExpires, ParkedClaim, ParkedEvicted, ParkedEnds,
           Unregister
    <2>3. CASE Tick \/ UNCHANGED vars
      BY <2>3 DEF Tick, vars
    <2> QED BY <1>1, <2>1, <2>2, <2>3 DEF Next
  <1>2. IInv /\ [Next]_vars => [\A c \in Conn : Kept(c)]_vars
    BY <1>1
  <1> QED BY <1>2, Inductive, PTL DEF Spec, InUseKept

(* A session's owner keeps it, hands it to another task or takes the entry  *)
(* along, whichever task steps, unless the session is dropped.              *)
LEMMA OwnerStays ==
    ASSUME IInv, [Next]_vars, ~SessionDropped, NEW t \in registered'
    PROVE  Held(t)' \/ (t \in registered /\ ~Held(t))
  <1>0. TypeOK /\ TokensKnown /\ SingleOwner /\ SlotsAreSound
    BY DEF IInv
  <1> USE DEF TypeOK, TokensKnown
  <1>1. ASSUME NEW d \in Conn, ConnNext(d) PROVE Held(t)' \/ (t \in registered /\ ~Held(t))
    <2>0. pc[d] \in InClaim \cup Owning => tok[d] \in Token
      BY <1>0
    <2>1. CASE ClaimMismatch(d) \/ SocketLost(d) \/ HandOverFails(d)
      <3>1. /\ Park(tok[d]) /\ tok[d] \in Token
            /\ \A o \in Conn : o # d => pc'[o] = pc[o] /\ tok'[o] = tok[o]
        BY <1>0, <2>0, <2>1 DEF ClaimMismatch, SocketLost, HandOverFails
      <3>2. registered' \subseteq registered /\ tasks \subseteq tasks'
        BY <3>1, Zenon DEF Park
      <3>3. tok[d] \in registered => tok[d] \in tasks'
        BY <3>1, Zenon DEF Park
      <3> QED BY <3>1, <3>2, <3>3 DEF Held, Owns
    <2>2. CASE ConnectionEnds(d) \/ ConnectionOrphaned(d)
      <3>1. /\ registered' = registered \ {tok[d]} /\ tasks' = tasks
            /\ \A o \in Conn : o # d => pc'[o] = pc[o] /\ tok'[o] = tok[o]
        BY <1>0, <2>2 DEF ConnectionEnds, ConnectionOrphaned, Forget, Unregister
      <3> QED BY <3>1 DEF Held, Owns
    <2>3. CASE \E u \in Token : AttachFresh(d, u)
      <3>1. PICK u \in Token : AttachFresh(d, u)
        BY <2>3
      <3>2. /\ registered' = registered \cup {u} /\ tasks' = tasks /\ pc[d] = "fresh"
            /\ pc'[d] = "attached" /\ tok'[d] = u
            /\ \A o \in Conn : o # d => pc'[o] = pc[o] /\ tok'[o] = tok[o]
        BY <1>0, <3>1 DEF AttachFresh, Register
      <3> QED BY <3>2 DEF Held, Owns
    <2>4. CASE HandOver(d)
      <3>1. /\ pc[d] = "handing" /\ reply[d] # Gone /\ reply[d] \in Conn
            /\ pc[reply[d]] \in Waiting /\ tok[reply[d]] = tok[d] /\ reply[d] # d
        BY <1>0, <2>4 DEF HandOver, SlotsAreSound
      <3>2. /\ registered' = registered /\ tasks' = tasks
            /\ pc'[reply[d]] \in {"got", "missed"} /\ tok'[reply[d]] = tok[d]
            /\ \A o \in Conn : o # d /\ o # reply[d] => pc'[o] = pc[o] /\ tok'[o] = tok[o]
        BY <1>0, <2>4, <3>1 DEF HandOver, Answered
      <3> QED BY <3>1, <3>2 DEF Held, Owns
    <2>5. CASE ClaimAccept(d) \/ TakeClaim(d)
      <3>1. /\ registered' = registered /\ tasks' = tasks /\ tok' = tok
            /\ pc[d] \in Owning /\ pc'[d] \in Owning
            /\ \A o \in Conn : o # d => pc'[o] = pc[o]
        BY <1>0, <2>5 DEF ClaimAccept, TakeClaim
      <3> QED BY <3>1 DEF Held, Owns
    <2>6. CASE \/ Connect(d) \/ ClaimSend(d) \/ ClaimRefused(d) \/ ClaimTimeout(d)
               \/ ClaimLapses(d)
               \/ \E u \in Token : ClaimLookup(d, u)
      <3>1. registered' \subseteq registered /\ tasks' = tasks /\ pc[d] \notin Owning
        BY <2>6 DEF Connect, ClaimSend, ClaimRefused, ClaimTimeout, ClaimLapses, ClaimLookup, Live
      <3>2. \A o \in Conn : o # d => pc'[o] = pc[o] /\ tok'[o] = tok[o]
        BY <1>0, <2>6 DEF Connect, ClaimSend, ClaimRefused, ClaimTimeout, ClaimLapses, ClaimLookup
      <3> QED BY <3>1, <3>2 DEF Held, Owns
    <2> QED BY <1>1, <2>1, <2>2, <2>3, <2>4, <2>5, <2>6
         DEF ConnNext, SessionDropped
  <1>2. ASSUME NEW u \in Token, ParkedNext(u) PROVE Held(t)' \/ (t \in registered /\ ~Held(t))
    <2>1. CASE ParkedClaim(u)
      <3>1. registered' = registered /\ tok' = tok /\ u \in tasks /\ claims[u] # << >>
        BY <2>1 DEF ParkedClaim
      <3>2. CASE Head(claims[u]) = Gone
        BY <2>1, <3>1, <3>2 DEF ParkedClaim, Held, Owns
      <3>3. CASE Head(claims[u]) # Gone
        <4>1. PICK h : h = Head(claims[u])
          OBVIOUS
        <4>2. h \in Conn /\ pc[h] \in Waiting /\ tok[h] = u
          <5>1. claims[u] \in Seq(Conn \cup {Gone}) /\ 1 \in DOMAIN claims[u]
                /\ h = claims[u][1]
            BY <1>0, <3>1, <4>1
          <5>2. h \in Conn \cup {Gone}
            BY <5>1
          <5> QED BY <1>0, <3>3, <4>1, <5>1, <5>2 DEF SlotsAreSound
        <4>3. /\ tasks' = tasks \ {u} /\ pc'[h] \in {"got", "missed"}
              /\ \A o \in Conn : o # h => pc'[o] = pc[o]
          BY <1>0, <2>1, <3>3, <4>1, <4>2 DEF ParkedClaim, Answered
        <4> QED BY <3>1, <4>2, <4>3 DEF Held, Owns
      <3> QED BY <3>2, <3>3
    <2>2. CASE ParkedEvicted(u)
      BY <2>2 DEF ParkedEvicted, ChannelClosed, Held, Owns
    <2>3. CASE ParkedEnds(u) \/ ParkedExpires(u)
      BY <2>3 DEF ParkedEnds, ParkedExpires, Unregister, Held, Owns
    <2> QED BY <1>2, <2>1, <2>2, <2>3 DEF ParkedNext
  <1>3. CASE Tick \/ UNCHANGED vars
    BY <1>3 DEF Tick, vars, Held, Owns
  <1> QED BY <1>1, <1>2, <1>3 DEF Next

(* No park, expiry, refused hand-over or eviction leaves an entry without   *)
(* an owner in the registry (Sessions::len): only an attach that fails, or  *)
(* an answer that a claimant no longer looks at.                            *)
THEOREM NothingElseLeaks == Spec => OnlyDroppedSessionsLeak
  <1>1. ASSUME IInv, [Next]_vars, ~SessionDropped PROVE Leaked' \subseteq Leaked
    BY <1>1, OwnerStays DEF Leaked
  <1>2. IInv /\ [Next]_vars => [~SessionDropped => Leaked' \subseteq Leaked]_vars
    BY <1>1
  <1> QED BY <1>2, Inductive, PTL DEF Spec, OnlyDroppedSessionsLeak
==============================================================================
