--------------------------- MODULE SessionRegistry ---------------------------
(***************************************************************************)
(* Who owns a streaming session (crates/v2xw-server/src/resume.rs and the  *)
(* connection tasks of crates/v2xw-server/src/http.rs).                    *)
(*                                                                         *)
(* A session is owned by one task at a time: a connection task while a     *)
(* socket is attached, a parked task while none is.  The registry maps a   *)
(* token to the sending half of the session's claim channel; ownership     *)
(* moves when the owner answers a claim.  Several connection tasks run in  *)
(* parallel on the runtime's threads; every `.await` and every release of  *)
(* the registry's mutex is a point where they interleave.                  *)
(*                                                                         *)
(* What the session streams is left to another module: here a session is   *)
(* only its token.  A token name that nothing refers to any more stands    *)
(* for the next token the server mints.                                    *)
(***************************************************************************)
EXTENDS Integers, FiniteSets, Sequences

CONSTANTS
    Conn,        \* connection tasks (sockets)
    Token,       \* session tokens
    MaxParked,   \* MAX_PARKED
    ClaimSlots,  \* capacity of a session's claim channel (4 in the code)
    ResumeTtl,   \* RESUME_TTL, in ticks of the wall clock
    MaxLeaked,   \* bound on failed attaches that leave their entry behind
    NoToken,     \* "this task has no session"
    Gone         \* a reply slot whose claimant stopped waiting

ASSUME BoundsAssumption ==
    /\ MaxParked \in Nat \ {0}
    /\ ClaimSlots \in Nat \ {0}
    /\ ResumeTtl \in Nat \ {0}
    /\ MaxLeaked \in Nat

ASSUME NamesAssumption ==
    /\ IsFiniteSet(Token)
    /\ NoToken \notin Token
    /\ Gone \notin Conn

VARIABLES
    pc,          \* where each connection task is
    tok,         \* the token each connection task works with
    reply,       \* the claim a connection being superseded must answer
    registered,  \* tokens with an entry in Sessions::entries
    parked,      \* tokens whose entry has parked_at = Some(_)
    age,         \* ticks since parked_at, saturating at ResumeTtl
    tasks,       \* tokens whose session is owned by a parked_task
    claims       \* the claim channel of each session: waiting reply slots

vars == <<pc, tok, reply, registered, parked, age, tasks, claims>>

-----------------------------------------------------------------------------
(* Connection states.                                                      *)
(*   idle      no socket                                                   *)
(*   claiming  in Sessions::claim, holds a clone of the claim sender       *)
(*   waiting   in Sessions::claim, its reply slot is in the channel        *)
(*   late      CLAIM_TIMEOUT was seen, the reply slot is not dropped yet   *)
(*   got       the session has arrived in its reply slot                   *)
(*   missed    the session has arrived in a slot about to be dropped       *)
(*   fresh     in attach, about to make a new session                      *)
(*   attached  in run_connection                                           *)
(*   handing   left run_connection with Exit::Handover(reply)              *)

States == {"idle", "claiming", "waiting", "late", "got", "missed", "fresh", "attached", "handing"}

Waiting == {"waiting", "late"}
InClaim == {"claiming", "waiting", "late", "got", "missed"}
Owning  == {"got", "missed", "attached", "handing"}

TypeOK ==
    /\ pc \in [Conn -> States]
    /\ tok \in [Conn -> Token \cup {NoToken}]
    /\ reply \in [Conn -> Conn \cup {Gone}]
    /\ registered \in SUBSET Token
    /\ parked \in SUBSET Token
    /\ age \in [Token -> 0 .. ResumeTtl]
    /\ tasks \in SUBSET Token
    /\ claims \in [Token -> Seq(Conn \cup {Gone})]

Init ==
    /\ pc = [c \in Conn |-> "idle"]
    /\ tok = [c \in Conn |-> NoToken]
    /\ reply = [c \in Conn |-> Gone]
    /\ registered = {}
    /\ parked = {}
    /\ age = [t \in Token |-> 0]
    /\ tasks = {}
    /\ claims = [t \in Token |-> << >>]

(* The session of t exists: some task holds its Detached value, and with it *)
(* the receiving half of the claim channel.                                 *)
Owns(c, t) == pc[c] \in Owning /\ tok[c] = t

Held(t) == t \in tasks \/ \E c \in Conn : Owns(c, t)

(* recv() on the claim channel yields None: the registry's sender is gone,  *)
(* no claimant still holds a clone of it, and nothing is queued.            *)
ChannelClosed(t) ==
    /\ t \notin registered
    /\ claims[t] = << >>
    /\ \A c \in Conn : ~(pc[c] \in InClaim /\ tok[c] = t)

Leaked == {t \in registered : ~Held(t)}

(* The tokens the bound MaxLeaked counts: leaked, or about to be.            *)
Losing == Leaked \cup {tok[c] : c \in {d \in Conn : pc[d] \in {"late", "missed"}}}

-----------------------------------------------------------------------------
(* Sessions::park.  Nothing is kept for a token the registry forgot.        *)
(* Otherwise the entry is stamped, the oldest parked entries beyond         *)
(* MAX_PARKED are removed and the parked task starts.  The caller has       *)
(* already given up the session.                                            *)

Oldest(V, P) == \A v \in V, w \in P \ V : age'[v] >= age'[w]

Park(t) ==
    IF t \notin registered
    THEN /\ claims' = [claims EXCEPT ![t] = << >>]
         /\ UNCHANGED <<registered, parked, age, tasks>>
    ELSE LET P == parked \cup {t}
         IN  /\ age' = [age EXCEPT ![t] = 0]
             /\ \E V \in SUBSET P :
                   /\ Cardinality(P \ V) <= MaxParked
                   /\ \A v \in V : Cardinality(P \ (V \ {v})) > MaxParked
                   /\ Oldest(V, P)
                   /\ parked' = P \ V
                   /\ registered' = registered \ V
             /\ tasks' = tasks \cup {t}
             /\ UNCHANGED claims

(* The Detached value is dropped: its claim channel goes with it.           *)
DropSession(t) == claims' = [claims EXCEPT ![t] = << >>]

Unregister(t) ==
    /\ registered' = registered \ {t}
    /\ parked' = parked \ {t}

-----------------------------------------------------------------------------
(* A new socket without ?session=.                                          *)
Connect(c) ==
    /\ pc[c] = "idle"
    /\ pc' = [pc EXCEPT ![c] = "fresh"]
    /\ UNCHANGED <<tok, reply, registered, parked, age, tasks, claims>>

(* A new socket with ?session=t: Sessions::claim expires what is too old    *)
(* and clones the sender, or finds nothing.                                 *)
(* Mutant: expire judges every entry by its last parked_at, parked or not.   *)
LiveByStaleAge == {t \in registered : age[t] < ResumeTtl}

Live == {t \in registered : t \in parked => age[t] < ResumeTtl}

ClaimLookup(c, t) ==
    /\ pc[c] = "idle"
    /\ registered' = Live
    /\ parked' = parked \cap Live
    /\ IF t \in Live
       THEN /\ pc' = [pc EXCEPT ![c] = "claiming"]
            /\ tok' = [tok EXCEPT ![c] = t]
       ELSE /\ pc' = [pc EXCEPT ![c] = "fresh"]
            /\ UNCHANGED tok
    /\ UNCHANGED <<reply, age, tasks, claims>>

(* sender.send(reply).await: waits while the channel is full and fails when *)
(* the receiving half is gone.                                              *)
ClaimSend(c) ==
    /\ pc[c] = "claiming"
    /\ Held(tok[c])
    /\ Len(claims[tok[c]]) < ClaimSlots
    /\ claims' = [claims EXCEPT ![tok[c]] = Append(@, c)]
    /\ pc' = [pc EXCEPT ![c] = "waiting"]
    /\ UNCHANGED <<tok, reply, registered, parked, age, tasks>>

(* The owner dropped the session, or the reply slot, without answering.     *)
Awaited(c) ==
    \/ \E i \in DOMAIN claims[tok[c]] : claims[tok[c]][i] = c
    \/ \E o \in Conn : pc[o] = "handing" /\ reply[o] = c

ClaimRefused(c) ==
    /\ \/ pc[c] = "claiming" /\ ~Held(tok[c])
       \/ pc[c] = "waiting" /\ ~Awaited(c)
    /\ pc' = [pc EXCEPT ![c] = "fresh"]
    /\ tok' = [tok EXCEPT ![c] = NoToken]
    /\ UNCHANGED <<reply, registered, parked, age, tasks, claims>>

(* CLAIM_TIMEOUT passes.  The timeout polls the answer first and the clock  *)
(* after it, and the receiver is dropped when claim returns: an answer sent *)
(* in between is accepted by the slot and lost with it.                     *)
ClaimLapses(c) ==
    /\ pc[c] = "waiting"
    /\ Cardinality(Losing) < MaxLeaked
    /\ pc' = [pc EXCEPT ![c] = "late"]
    /\ UNCHANGED <<tok, reply, registered, parked, age, tasks, claims>>

(* The receiver is dropped.  The reply slot stays where it is, with nobody  *)
(* behind it.                                                               *)
Abandon(q, c) == [i \in DOMAIN q |-> IF q[i] = c THEN Gone ELSE q[i]]

ClaimTimeout(c) ==
    /\ pc[c] \in Waiting
    /\ claims' = [claims EXCEPT ![tok[c]] = Abandon(@, c)]
    /\ reply' = [o \in Conn |-> IF reply[o] = c THEN Gone ELSE reply[o]]
    /\ pc' = [pc EXCEPT ![c] = "fresh"]
    /\ tok' = [tok EXCEPT ![c] = NoToken]
    /\ UNCHANGED <<registered, parked, age, tasks>>

(* The session was sent to a claimant that had stopped looking: it goes     *)
(* with the slot, and its entry stays.                                      *)
AnswerMissed(c) ==
    /\ pc[c] = "missed"
    /\ DropSession(tok[c])
    /\ pc' = [pc EXCEPT ![c] = "fresh"]
    /\ tok' = [tok EXCEPT ![c] = NoToken]
    /\ UNCHANGED <<reply, registered, parked, age, tasks>>

(* reply.send succeeds as long as the receiver exists.                      *)
Answered(c) == IF pc[c] = "late" THEN "missed" ELSE "got"

(* The claimant resumes with the session: claim clears parked_at if the     *)
(* entry is still there, and attach takes a session of its own profile.     *)
ClaimAccept(c) ==
    /\ pc[c] = "got"
    /\ parked' = parked \ {tok[c]}
    /\ pc' = [pc EXCEPT ![c] = "attached"]
    /\ UNCHANGED <<tok, reply, registered, age, tasks, claims>>

(* The retained session has another profile: it is parked again and the     *)
(* claimant starts a new one.                                               *)
ClaimMismatch(c) ==
    /\ pc[c] = "got"
    /\ pc' = [pc EXCEPT ![c] = "fresh"]
    /\ tok' = [tok EXCEPT ![c] = NoToken]
    /\ Park(tok[c])
    /\ UNCHANGED reply

(* A new session under a freshly minted token.                              *)
Unused(t) ==
    /\ t \notin registered
    /\ ~Held(t)
    /\ \A c \in Conn : tok[c] # t

Register(t) == registered' = registered \cup {t}

AttachFresh(c, t) ==
    /\ pc[c] = "fresh"
    /\ Unused(t)
    /\ Register(t)
    /\ pc' = [pc EXCEPT ![c] = "attached"]
    /\ tok' = [tok EXCEPT ![c] = t]
    /\ UNCHANGED <<reply, parked, age, tasks, claims>>

(* attach returns an error after the token was registered or claimed: the   *)
(* greeting could not be encoded.  The session is dropped, the entry stays. *)
AttachFailsFresh(c, t) ==
    /\ pc[c] = "fresh"
    /\ Cardinality(Losing) < MaxLeaked
    /\ Unused(t)
    /\ Register(t)
    /\ pc' = [pc EXCEPT ![c] = "idle"]
    /\ UNCHANGED <<tok, reply, parked, age, tasks, claims>>

AttachFailsClaimed(c) ==
    /\ pc[c] = "got"
    /\ Cardinality(Losing) < MaxLeaked
    /\ parked' = parked \ {tok[c]}
    /\ DropSession(tok[c])
    /\ pc' = [pc EXCEPT ![c] = "idle"]
    /\ tok' = [tok EXCEPT ![c] = NoToken]
    /\ UNCHANGED <<reply, registered, age, tasks>>

-----------------------------------------------------------------------------
(* The connection loop ends.                                                *)

(* Exit::Park: the socket failed, or closed with a code other than 1000.    *)
SocketLost(c) ==
    /\ pc[c] = "attached"
    /\ pc' = [pc EXCEPT ![c] = "idle"]
    /\ tok' = [tok EXCEPT ![c] = NoToken]
    /\ Park(tok[c])
    /\ UNCHANGED reply

(* Exit::Forget: a clean close, a protocol error, a step that could not be  *)
(* encoded or a queue that could not hold a P0 frame.                       *)
Forget(c) ==
    /\ Unregister(tok[c])
    /\ DropSession(tok[c])
    /\ pc' = [pc EXCEPT ![c] = "idle"]
    /\ tok' = [tok EXCEPT ![c] = NoToken]
    /\ UNCHANGED <<reply, age, tasks>>

ConnectionEnds(c) == pc[c] = "attached" /\ Forget(c)

(* Exit::Forget because claims.recv() returned None.                        *)
ConnectionOrphaned(c) ==
    /\ pc[c] = "attached"
    /\ ChannelClosed(tok[c])
    /\ Forget(c)

(* Exit::Handover: the loop takes a claim, says Bye on the old socket and   *)
(* then answers.                                                            *)
TakeClaim(c) ==
    /\ pc[c] = "attached"
    /\ claims[tok[c]] # << >>
    /\ reply' = [reply EXCEPT ![c] = Head(claims[tok[c]])]
    /\ claims' = [claims EXCEPT ![tok[c]] = Tail(@)]
    /\ pc' = [pc EXCEPT ![c] = "handing"]
    /\ UNCHANGED <<tok, registered, parked, age, tasks>>

HandOver(c) ==
    /\ pc[c] = "handing"
    /\ reply[c] # Gone
    /\ pc' = [pc EXCEPT ![c] = "idle", ![reply[c]] = Answered(reply[c])]
    /\ tok' = [tok EXCEPT ![c] = NoToken]
    /\ reply' = [reply EXCEPT ![c] = Gone]
    /\ UNCHANGED <<registered, parked, age, tasks, claims>>

(* The claimant gave up waiting: the session is parked instead.             *)
HandOverFails(c) ==
    /\ pc[c] = "handing"
    /\ reply[c] = Gone
    /\ pc' = [pc EXCEPT ![c] = "idle"]
    /\ tok' = [tok EXCEPT ![c] = NoToken]
    /\ Park(tok[c])
    /\ UNCHANGED reply

-----------------------------------------------------------------------------
(* parked_task                                                              *)

(* Mutant: the task goes on after it gave the session away. *)
ParkedClaimKeepsTask(t) ==
    /\ t \in tasks
    /\ claims[t] # << >>
    /\ claims' = [claims EXCEPT ![t] = Tail(@)]
    /\ IF Head(claims[t]) = Gone
       THEN UNCHANGED pc
       ELSE pc' = [pc EXCEPT ![Head(claims[t])] = Answered(Head(claims[t]))]
    /\ UNCHANGED <<tok, reply, registered, parked, age, tasks>>

(* Mutant: a claim whose claimant has gone is not skipped. *)
ParkedClaimLiveOnly(t) ==
    /\ t \in tasks
    /\ claims[t] # << >>
    /\ Head(claims[t]) # Gone
    /\ claims' = [claims EXCEPT ![t] = Tail(@)]
    /\ pc' = [pc EXCEPT ![Head(claims[t])] = Answered(Head(claims[t]))]
    /\ tasks' = tasks \ {t}
    /\ UNCHANGED <<tok, reply, registered, parked, age>>

(* A claim is answered; one whose claimant has gone is skipped.             *)
ParkedClaim(t) ==
    /\ t \in tasks
    /\ claims[t] # << >>
    /\ claims' = [claims EXCEPT ![t] = Tail(@)]
    /\ IF Head(claims[t]) = Gone
       THEN UNCHANGED <<pc, tasks>>
       ELSE /\ pc' = [pc EXCEPT ![Head(claims[t])] = Answered(Head(claims[t]))]
            /\ tasks' = tasks \ {t}
    /\ UNCHANGED <<tok, reply, registered, parked, age>>

(* Mutant: the task ignores the closed channel and keeps encoding. *)
ParkedEvictedIgnored(t) ==
    /\ t \in tasks
    /\ ChannelClosed(t)
    /\ UNCHANGED vars

(* Evicted: the claim channel closed.                                       *)
ParkedEvicted(t) ==
    /\ t \in tasks
    /\ ChannelClosed(t)
    /\ tasks' = tasks \ {t}
    /\ UNCHANGED <<pc, tok, reply, registered, parked, age, claims>>

(* Mutant: the task ends without remove_if. *)
ParkedEndsKeepsEntry(t) ==
    /\ t \in tasks
    /\ tasks' = tasks \ {t}
    /\ DropSession(t)
    /\ UNCHANGED <<pc, tok, reply, registered, parked, age>>

(* RESUME_TTL passed, the run's broadcast closed, or a step could not be    *)
(* encoded: remove_if, and the task ends.                                   *)
ParkedEnds(t) ==
    /\ t \in tasks
    /\ tasks' = tasks \ {t}
    /\ Unregister(t)
    /\ DropSession(t)
    /\ UNCHANGED <<pc, tok, reply, age>>

ParkedExpires(t) == age[t] = ResumeTtl /\ ParkedEnds(t)

Tick ==
    /\ \E t \in parked : age[t] < ResumeTtl
    /\ age' = [t \in Token |->
                 IF t \in parked /\ age[t] < ResumeTtl THEN age[t] + 1 ELSE age[t]]
    /\ UNCHANGED <<pc, tok, reply, registered, parked, tasks, claims>>

-----------------------------------------------------------------------------
ConnNext(c) ==
    \/ Connect(c)
    \/ \E t \in Token : ClaimLookup(c, t)
    \/ ClaimSend(c)
    \/ ClaimRefused(c)
    \/ ClaimLapses(c)
    \/ ClaimTimeout(c)
    \/ AnswerMissed(c)
    \/ ClaimAccept(c)
    \/ ClaimMismatch(c)
    \/ \E t \in Token : AttachFresh(c, t) \/ AttachFailsFresh(c, t)
    \/ AttachFailsClaimed(c)
    \/ SocketLost(c)
    \/ ConnectionEnds(c)
    \/ ConnectionOrphaned(c)
    \/ TakeClaim(c)
    \/ HandOver(c)
    \/ HandOverFails(c)

ParkedNext(t) ==
    \/ ParkedClaim(t)
    \/ ParkedEvicted(t)
    \/ ParkedExpires(t)
    \/ ParkedEnds(t)

Next ==
    \/ \E c \in Conn : ConnNext(c)
    \/ \E t \in Token : ParkedNext(t)
    \/ Tick

Spec == Init /\ [][Next]_vars

(* What the runtime guarantees.  A ready task is polled, timers fire, and   *)
(* the claim channel's semaphore is first come first served, so a claimant  *)
(* that finds room again and again gets in (SF).                            *)
ClaimFairness ==
    /\ \A c \in Conn :
          /\ SF_vars(ClaimSend(c))
          /\ WF_vars(ClaimRefused(c))
          /\ WF_vars(ClaimTimeout(c)) /\ WF_vars(AnswerMissed(c))
          /\ WF_vars(ClaimAccept(c) \/ ClaimMismatch(c) \/ AttachFailsClaimed(c))
    /\ \A t \in Token : WF_vars(ParkedClaim(t)) /\ WF_vars(ParkedEvicted(t))

(* Nothing is assumed of a connection task: it waits in socket.send for a   *)
(* peer that may have stopped reading, and then comes back to its claims    *)
(* never, or late.                                                          *)
FairSpec == Spec /\ ClaimFairness

-----------------------------------------------------------------------------
(* Safety                                                                   *)

(* resume.rs, "Every session is owned by exactly one task at a time": no    *)
(* hand-over, timeout, mismatch or eviction leaves two tasks with the same  *)
(* session.                                                                 *)
SingleOwner ==
    /\ \A c, d \in Conn : Owns(c, tok[d]) /\ pc[d] \in Owning => c = d
    /\ \A c \in Conn : pc[c] \in Owning => tok[c] \notin tasks

(* resume.rs, "no more than MAX_PARKED are parked at once": park's eviction *)
(* keeps the bound whatever interleaving led to it.                         *)
ParkedBound == Cardinality(parked) <= MaxParked

(* Entry::parked_at is None while a socket is attached, so neither          *)
(* expire nor park's eviction can pick a session in use.                    *)
AttachedIsNotParked ==
    \A c \in Conn : pc[c] \in {"attached", "handing"} => tok[c] \notin parked

(* A reply slot is answered at most once: it waits in one channel, or in    *)
(* the hands of one owner, and its claimant waits for exactly that session. *)
SlotsAreSound ==
    /\ \A t \in Token : \A i \in DOMAIN claims[t] :
          claims[t][i] # Gone =>
             /\ pc[claims[t][i]] \in Waiting
             /\ tok[claims[t][i]] = t
             /\ \A j \in DOMAIN claims[t] : claims[t][i] = claims[t][j] => i = j
             /\ \A o \in Conn : reply[o] # claims[t][i]
    /\ \A o \in Conn : reply[o] # Gone =>
          /\ pc[o] = "handing"
          /\ pc[reply[o]] \in Waiting
          /\ tok[reply[o]] = tok[o]

(* While a connection streams, no step of another task removes its entry:   *)
(* only the connection itself forgets or hands over its session.            *)
InUseKept ==
    [][\A c \in Conn :
          pc[c] = "attached" /\ pc'[c] = "attached" /\ tok[c] \in registered
             => tok[c] \in registered']_vars

(* Sessions::len, "How many sessions are registered, parked or attached":   *)
(* an entry loses its owner in two ways only.  attach fails after it        *)
(* registered or claimed the session, or an answer meets a claimant between *)
(* its timeout and the drop of its slot.  No park, expiry, refused          *)
(* hand-over or eviction leaves an entry behind.                            *)
SessionDropped ==
    \E c \in Conn :
       \/ AttachFailsClaimed(c)
       \/ \E t \in Token : AttachFailsFresh(c, t)
       \/ AnswerMissed(c)

OnlyDroppedSessionsLeak == [][~SessionDropped => Leaked' \subseteq Leaked]_vars

-----------------------------------------------------------------------------
(* Liveness                                                                 *)

(* Sessions::claim comes to an end whatever peers do, with one exception:   *)
(* the send of the claim, which is outside CLAIM_TIMEOUT, waits for ever    *)
(* only while a connection that never comes back to its select loop owns    *)
(* the session and its claim channel is full.  No parked task, no eviction  *)
(* and no slot of a claimant that gave up keeps a claim waiting.            *)
OwnerStuck(c) ==
    /\ pc[c] = "claiming"
    /\ Len(claims[tok[c]]) = ClaimSlots
    /\ \E o \in Conn : Owns(o, tok[c]) /\ pc[o] \in {"attached", "handing"}

OnlyStuckOwnerBlocks ==
    \A c \in Conn : []<>(pc[c] \notin InClaim) \/ <>[]OwnerStuck(c)

(* park, "an evicted session's task ends when its claim channel closes":    *)
(* the channel does close, whatever claims are still in it or on their way. *)
EvictedTaskEnds ==
    \A t \in Token : (t \in tasks /\ t \notin registered) ~> t \notin tasks

-----------------------------------------------------------------------------
(* What comments in the code say and the code does not keep.  The README    *)
(* gives the behaviours that refute each.                                  *)

(* resume.rs, on claim: "None when there is no such session, or its owner   *)
(* did not answer within CLAIM_TIMEOUT".  Every claim ends.                 *)
ClaimEnds == \A c \in Conn : pc[c] \in InClaim ~> pc[c] \notin InClaim

(* http.rs, on claims.recv() = None: "The registry forgot this session (the *)
(* server is going away)".  A socket that is attached always has its entry, *)
(* so that None can only mean the server is going away.                     *)
AttachedIsRegistered ==
    \A c \in Conn : pc[c] = "attached" => tok[c] \in registered

==============================================================================
