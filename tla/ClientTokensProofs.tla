------------------------- MODULE ClientTokensProofs -------------------------
(***************************************************************************)
(* Proofs about ClientTokens, for any number of requests of the desktop    *)
(* client, of commands and of pairs: the desktop client never presents a   *)
(* refresh token it has had an answer for, a command submits no more codes *)
(* than it may, the keyring is left with a live session, and no renewal    *)
(* undoes another. TLC has the liveness property.                          *)
(***************************************************************************)
EXTENDS ClientTokens, TLAPS

(* The type invariant, by owner.                                           *)
ReqRecords(n) == [at : {"idle", "built", "refused", "renewing"}, header : 0..n, stale : 0..n,
                  answer : 0..n]
CmdRecords(n) == [at : {"idle", "loaded", "answered", "working", "mfa"}, held : 0..n,
                  left : 0..MaxMfaAttempts, submitted : 0..MaxMfaAttempts]
SaveRecords(n) == [pair : 1..n, cached : BOOLEAN]

ServerTypes == /\ last \in 0..MaxPair /\ live \subseteq 1..last /\ valid \subseteq 1..last
               /\ keyring \in 0..last
GuiTypes == /\ phase \in Phases /\ token \in 0..last /\ refresh \in 0..last /\ cache \in 0..last
            /\ lock \in Requests \cup {None}
            /\ saves \subseteq SaveRecords(last)
            /\ exchanged \subseteq 1..last
            /\ faults \subseteq {"lost", "killed", "reordered"}
ReqTypes == /\ req \in [Requests -> ReqRecords(last)]
            /\ \A q \in Requests : req[q].at = "renewing" => lock = q
CmdTypes == cmd \in [Commands -> CmdRecords(last)]

(* Why a token is not presented again. Whoever holds the lock has either   *)
(* the next token in its hand, or has spent nothing; the lock free, the    *)
(* token to renew with is one that has not been exchanged. Before the      *)
(* pollers run, there is no token to renew with and nobody renews.         *)
RenewalRules ==
    /\ phase # "in" => lock = None /\ refresh = 0
    /\ phase = "restored" => token \notin exchanged
    /\ lock = None => refresh \notin exchanged
    /\ lock # None =>
          /\ req[lock].at = "renewing"
          /\ req[lock].answer = 0 => refresh \notin exchanged
          /\ req[lock].answer # 0 => req[lock].answer \notin exchanged

(* Submissions and attempts left never add up to more than the limit.      *)
AttemptRules ==
    \A c \in Commands :
        /\ cmd[c].left + cmd[c].submitted <= MaxMfaAttempts
        /\ cmd[c].at # "mfa" => cmd[c].left = 0 /\ cmd[c].submitted = 0

TokenInv == /\ ServerTypes /\ GuiTypes /\ ReqTypes /\ CmdTypes
            /\ RenewalRules /\ AttemptRules

LEMMA InitHolds == TokenInit => TokenInv
<1> SUFFICES ASSUME TokenInit PROVE TokenInv
  OBVIOUS
<1>0. MaxPair \in Nat \ {0} /\ MaxMfaAttempts \in Nat \ {0} /\ last = 1
  BY PairAssumption DEF TokenInit
<1>1. ServerTypes
  BY <1>0 DEF TokenInit, ServerTypes
<1>2. GuiTypes
  BY <1>0 DEF TokenInit, GuiTypes, Phases
<1>3. ReqTypes
  BY <1>0 DEF TokenInit, ReqTypes, ReqRecords, Idle
<1>4. CmdTypes /\ AttemptRules
  BY <1>0 DEF TokenInit, CmdTypes, CmdRecords, NoCommand, AttemptRules
<1>5. RenewalRules
  BY DEF TokenInit, RenewalRules
<1> QED
  BY <1>1, <1>2, <1>3, <1>4, <1>5 DEF TokenInv

(* What the client held stays a pair when more of them are given out.      *)
LEMMA MorePairs ==
    ASSUME TokenInv, last' \in last..MaxPair
    PROVE  /\ last \in Nat /\ last' \in Nat
           /\ req \in [Requests -> ReqRecords(last')]
           /\ cmd \in [Commands -> CmdRecords(last')]
           /\ saves \subseteq SaveRecords(last')
           /\ {token, refresh, cache, keyring} \subseteq 0..last'
           /\ exchanged \subseteq 1..last' /\ live \subseteq 1..last' /\ valid \subseteq 1..last'
<1>1. last \in Nat /\ last' \in Nat /\ last <= last'
  BY PairAssumption DEF TokenInv, ServerTypes
<1>2. 0..last \subseteq 0..last' /\ 1..last \subseteq 1..last'
  BY <1>1
<1>3. ReqRecords(last) \subseteq ReqRecords(last')
  BY <1>2 DEF ReqRecords
<1>4. CmdRecords(last) \subseteq CmdRecords(last')
  BY <1>2 DEF CmdRecords
<1>5. SaveRecords(last) \subseteq SaveRecords(last')
  BY <1>2 DEF SaveRecords
<1> QED
  BY <1>1, <1>2, <1>3, <1>4, <1>5 DEF TokenInv, ServerTypes, GuiTypes, ReqTypes, CmdTypes

(* The server gives out the next pair, and spends at most one session.     *)
LEMMA NextPair ==
    ASSUME TokenInv, NEW r, NEW n \in Pairs, Exchanged(r, n) \/ LoggedIn(n)
    PROVE  /\ last' \in last..MaxPair /\ last' = n /\ n = last + 1 /\ n # 0
           /\ live' \subseteq 1..last' /\ valid' \subseteq 1..last'
           /\ n \notin exchanged /\ n # token /\ n # refresh
           /\ Exchanged(r, n) => r \in 1..last /\ r # n
<1>1. last \in 0..MaxPair /\ MaxPair \in Nat /\ last' = n /\ n = last + 1 /\ last < MaxPair
  BY PairAssumption DEF TokenInv, ServerTypes, Exchanged, LoggedIn
<1>2. live \subseteq 1..last /\ valid \subseteq 1..last /\ exchanged \subseteq 1..last
      /\ token \in 0..last /\ refresh \in 0..last
  BY DEF TokenInv, ServerTypes, GuiTypes
<1>3. live' \subseteq live \cup {n} /\ valid' = valid \cup {n}
  BY DEF Exchanged, LoggedIn
<1>4. 1..last \subseteq 1..n /\ n \in 1..n
  BY <1>1
<1>5. Exchanged(r, n) => r \in 1..last /\ r # n
  BY <1>1, <1>2 DEF Exchanged
<1>6. n \notin exchanged /\ n # token /\ n # refresh /\ n # 0
  BY <1>1, <1>2
<1>7. last' \in last..MaxPair
  BY <1>1
<1>8. live' \subseteq 1..last' /\ valid' \subseteq 1..last'
  BY <1>1, <1>2, <1>3, <1>4
<1> QED
  BY <1>1, <1>5, <1>6, <1>7, <1>8

-----------------------------------------------------------------------------
(* The requests of the desktop client.                                     *)

(* Before it has the lock, and after it has been told that no exchange is  *)
(* needed, a request only goes on itself.                                  *)
LEMMA AloneKeeps ==
    ASSUME TokenInv, NEW q \in Requests, NEW new \in ReqRecords(last), new.at # "renewing",
           req' = [req EXCEPT ![q] = new], req[q].at # "renewing",
           UNCHANGED <<server, keyring, phase, token, refresh, cache, lock, saves, exchanged, cmd,
                       faults>>
    PROVE  TokenInv'
<1>1. ServerTypes' /\ GuiTypes' /\ CmdTypes' /\ AttemptRules'
  BY DEF TokenInv, ServerTypes, GuiTypes, CmdTypes, AttemptRules, server
<1>2. ReqTypes'
  BY DEF TokenInv, ReqTypes, server
<1>3. lock # None => lock \in Requests /\ lock # q /\ req'[lock] = req[lock]
  BY DEF TokenInv, GuiTypes, ReqTypes, RenewalRules
<1>4. RenewalRules'
  BY <1>3 DEF TokenInv, RenewalRules
<1> QED
  BY <1>1, <1>2, <1>4 DEF TokenInv

LEMMA RenewKeeps ==
    ASSUME TokenInv, NEW q \in Requests, Renew(q)
    PROVE  TokenInv' /\ refresh \notin exchanged
<1>0. /\ lock = None /\ lock' = q /\ q # None /\ refresh # 0 /\ phase = "in"
      /\ refresh \notin exchanged
      /\ UNCHANGED <<keyring, phase, token, refresh, cache, saves, cmd>>
  BY NamesAssumption DEF Renew, MayRenew, TokenInv, RenewalRules
<1>1. PICK a : /\ SetReq(q, "renewing", req[q].header, req[q].stale, a)
               /\ \/ a = 0 /\ UNCHANGED <<server, exchanged>>
                  \/ a = 0 /\ Lost(refresh) /\ UNCHANGED exchanged
                  \/ a \in Pairs /\ Exchanged(refresh, a) /\ exchanged' = exchanged \cup {refresh}
               /\ faults' \subseteq faults \cup {"lost"}
  BY DEF Renew, Refused
<1>2. /\ last' \in last..MaxPair /\ live' \subseteq 1..last' /\ valid' \subseteq 1..last'
      /\ exchanged' \subseteq 1..last' /\ a \in 0..last'
      /\ a = 0 => refresh \notin exchanged' /\ exchanged' = exchanged
      /\ a # 0 => a \notin exchanged'
  <2>1. CASE UNCHANGED <<server, exchanged>> /\ a = 0
    BY <2>1, <1>0, PairAssumption DEF server, TokenInv, ServerTypes, GuiTypes
  <2>2. CASE Lost(refresh) /\ a = 0 /\ UNCHANGED exchanged
    <3>1. PICK n \in Pairs : Exchanged(refresh, n)
      BY <2>2 DEF Lost
    <3>2. last' \in last..MaxPair /\ live' \subseteq 1..last' /\ valid' \subseteq 1..last'
      BY <3>1, NextPair
    <3> QED
      BY <2>2, <3>2, <1>0, MorePairs
  <2>3. CASE a \in Pairs /\ Exchanged(refresh, a) /\ exchanged' = exchanged \cup {refresh}
    <3>1. /\ last' \in last..MaxPair /\ live' \subseteq 1..last' /\ valid' \subseteq 1..last'
          /\ last' = a /\ a = last + 1 /\ a # 0 /\ a \notin exchanged /\ a # refresh
          /\ refresh \in 1..last
      BY <2>3, NextPair
    <3> QED
      BY <2>3, <3>1, MorePairs
  <2> QED
    BY <1>1, <2>1, <2>2, <2>3
<1>3. ServerTypes'
  BY <1>0, <1>2, MorePairs, PairAssumption DEF ServerTypes, TokenInv
<1>4. GuiTypes'
  BY <1>0, <1>1, <1>2, MorePairs DEF GuiTypes, TokenInv
<1>5. PICK new : new = [at |-> "renewing", header |-> req[q].header, stale |-> req[q].stale,
                        answer |-> a]
  OBVIOUS
<1>6. new \in ReqRecords(last') /\ new.at = "renewing" /\ new.answer = a
      /\ req' = [req EXCEPT ![q] = new]
  BY <1>1, <1>2, <1>5, MorePairs DEF SetReq, ReqRecords
<1>7. \A o \in Requests : req[o].at # "renewing"
  BY <1>0, NamesAssumption DEF TokenInv, ReqTypes
<1>8. ReqTypes'
  BY <1>0, <1>2, <1>6, <1>7, MorePairs DEF ReqTypes
<1>9. CmdTypes' /\ AttemptRules'
  BY <1>0, <1>2, MorePairs DEF CmdTypes, AttemptRules, TokenInv
<1>10. req'[q] = new
  BY <1>6 DEF TokenInv, ReqTypes
<1>11. RenewalRules'
  BY <1>0, <1>2, <1>6, <1>10 DEF RenewalRules
<1> QED
  BY <1>0, <1>3, <1>4, <1>8, <1>9, <1>11 DEF TokenInv

LEMMA RenewedKeeps ==
    ASSUME TokenInv, NEW q \in Requests, Renewed(q)
    PROVE  TokenInv'
<1>0. /\ lock = q /\ q # None /\ lock' = None /\ phase = "in"
      /\ req' = [req EXCEPT ![q] = Idle]
      /\ UNCHANGED <<last, live, valid, keyring, phase, cache, exchanged, cmd, faults>>
  BY NamesAssumption DEF Renewed, Released, TokenInv, ReqTypes, RenewalRules, server
<1>1. last \in Nat /\ req[q] \in ReqRecords(last) /\ req[q].answer \in 0..last
  BY PairAssumption DEF TokenInv, ServerTypes, ReqTypes, ReqRecords
<1>2. /\ token' \in 0..last /\ refresh' \in 0..last /\ saves' \subseteq SaveRecords(last)
      /\ refresh' \notin exchanged
  <2>1. CASE req[q].answer = 0
    BY <2>1, <1>0 DEF Renewed, TokenInv, GuiTypes, RenewalRules
  <2>2. CASE req[q].answer # 0
    <3>1. [pair |-> req[q].answer, cached |-> FALSE] \in SaveRecords(last)
      BY <2>2, <1>1 DEF SaveRecords
    <3> QED
      BY <2>2, <3>1, <1>0, <1>1 DEF Renewed, TokenInv, GuiTypes, RenewalRules
  <2> QED
    BY <2>1, <2>2
<1>3. ServerTypes' /\ CmdTypes' /\ AttemptRules'
  BY <1>0 DEF TokenInv, ServerTypes, CmdTypes, AttemptRules
<1>4. GuiTypes'
  BY <1>0, <1>2 DEF TokenInv, GuiTypes
<1>5. Idle \in ReqRecords(last) /\ Idle.at # "renewing"
  BY <1>1 DEF Idle, ReqRecords
<1>6. ReqTypes'
  BY <1>0, <1>5 DEF TokenInv, ReqTypes
<1>7. RenewalRules'
  BY <1>0, <1>2 DEF TokenInv, RenewalRules
<1> QED
  BY <1>3, <1>4, <1>6, <1>7 DEF TokenInv

LEMMA RequestKeeps ==
    ASSUME TokenInv, NEW q \in Requests, RequestStep(q)
    PROVE  TokenInv'
<1>0. last \in Nat /\ req[q] \in ReqRecords(last) /\ token \in 0..last
  BY PairAssumption DEF TokenInv, ServerTypes, GuiTypes, ReqTypes
<1>1. Idle \in ReqRecords(last) /\ Idle.at # "renewing"
  BY <1>0 DEF Idle, ReqRecords
<1>2. ASSUME Build(q) PROVE TokenInv'
  <2>1. PICK new : new = [at |-> "built", header |-> token, stale |-> 0, answer |-> 0]
    OBVIOUS
  <2>2. new \in ReqRecords(last) /\ new.at # "renewing"
    BY <2>1, <1>0 DEF ReqRecords
  <2> QED
    BY <1>2, <2>1, <2>2, AloneKeeps DEF Build, SetReq
<1>3. ASSUME Transmit(q) PROVE TokenInv'
  <2>1. PICK new : new = [at |-> "refused", header |-> req[q].header, stale |-> token, answer |-> 0]
    OBVIOUS
  <2>2. new \in ReqRecords(last) /\ new.at # "renewing"
    BY <2>1, <1>0 DEF ReqRecords
  <2> QED
    BY <1>1, <1>3, <2>1, <2>2, AloneKeeps DEF Transmit, SetReq
<1>4. ASSUME NoExchangeNeeded(q) PROVE TokenInv'
  BY <1>1, <1>4, AloneKeeps DEF NoExchangeNeeded, MayRenew
<1> QED
  BY <1>2, <1>3, <1>4, RenewKeeps, RenewedKeeps DEF RequestStep

-----------------------------------------------------------------------------
(* The rest of the desktop client.                                         *)

(* The tasks that save.                                                    *)
LEMMA SavingKeeps ==
    ASSUME TokenInv, NEW s \in saves, SaveToCache(s) \/ SaveToKeyring(s)
    PROVE  TokenInv'
<1>0. /\ s \in SaveRecords(last) /\ s.pair \in 1..last
      /\ [s EXCEPT !.cached = TRUE] \in SaveRecords(last)
      /\ UNCHANGED <<last, live, valid, phase, token, refresh, lock, req, exchanged, cmd>>
  BY DEF TokenInv, GuiTypes, SaveRecords, SaveToCache, SaveToKeyring, server
<1>1. /\ cache' \in 0..last /\ keyring' \in 0..last /\ saves' \subseteq SaveRecords(last)
      /\ faults' \subseteq {"lost", "killed", "reordered"}
  <2>1. last \in Nat /\ 1..last \subseteq 0..last
    BY PairAssumption DEF TokenInv, ServerTypes
  <2>2. CASE SaveToCache(s)
    BY <1>0, <2>1, <2>2 DEF TokenInv, ServerTypes, GuiTypes, SaveToCache
  <2>3. CASE SaveToKeyring(s)
    BY <1>0, <2>1, <2>3 DEF TokenInv, ServerTypes, GuiTypes, SaveToKeyring
  <2> QED
    BY <2>2, <2>3
<1> QED
  BY <1>0, <1>1 DEF TokenInv, ServerTypes, GuiTypes, ReqTypes, CmdTypes, RenewalRules,
     AttemptRules

LEMMA RestoreKeeps ==
    ASSUME TokenInv, Restore \/ LoginGui
    PROVE  TokenInv'
<1>0. /\ phase \in {"restoring", "login"} /\ lock = None /\ refresh = 0
      /\ UNCHANGED <<keyring, refresh, cache, lock, saves, req, cmd>>
  BY DEF Restore, LoginGui, TokenInv, RenewalRules
<1> DEFINE Goal ==
      /\ last' \in last..MaxPair /\ live' \subseteq 1..last' /\ valid' \subseteq 1..last'
      /\ token' \in 0..last' /\ exchanged' \subseteq 1..last'
      /\ phase' \in {"restored", "login"}
      /\ phase' = "restored" => token' \notin exchanged'
      /\ faults' \subseteq faults \cup {"lost"}
<1>1. Goal
  <2>1. ASSUME NEW n \in Pairs, Exchanged(cache, n), token' = n, phase' = "restored",
               exchanged' = exchanged \cup {cache}, UNCHANGED faults
        PROVE  Goal
    <3>1. /\ last' \in last..MaxPair /\ live' \subseteq 1..last' /\ valid' \subseteq 1..last'
          /\ last' = n /\ n = last + 1 /\ n \notin exchanged /\ cache \in 1..last /\ cache # n
      BY <2>1, NextPair
    <3> QED
      BY <2>1, <3>1, MorePairs
  <2>2. ASSUME UNCHANGED <<server, token, exchanged, faults>>, phase' = "login"
        PROVE  Goal
    BY <2>2, PairAssumption DEF server, TokenInv, ServerTypes, GuiTypes
  <2>3. ASSUME Lost(cache), UNCHANGED <<token, exchanged>>, phase' = "login",
               faults' = faults \cup {"lost"}
        PROVE  Goal
    <3>1. PICK n \in Pairs : Exchanged(cache, n)
      BY <2>3 DEF Lost
    <3>2. last' \in last..MaxPair /\ live' \subseteq 1..last' /\ valid' \subseteq 1..last'
      BY <3>1, NextPair
    <3> QED
      BY <2>3, <3>2, MorePairs
  <2>4. ASSUME NEW n \in Pairs, LoggedIn(n), token' = n, phase' = "restored",
               UNCHANGED <<exchanged, faults>>
        PROVE  Goal
    <3>1. /\ last' \in last..MaxPair /\ live' \subseteq 1..last' /\ valid' \subseteq 1..last'
          /\ last' = n /\ n = last + 1 /\ n \notin exchanged
      BY <2>4, NextPair
    <3> QED
      BY <2>4, <3>1, MorePairs
  <2> QED
    BY <2>1, <2>2, <2>3, <2>4 DEF Restore, LoginGui, Refused
<1>2. ServerTypes'
  BY <1>0, <1>1, MorePairs, PairAssumption DEF ServerTypes, TokenInv
<1>3. GuiTypes'
  BY <1>0, <1>1, MorePairs DEF GuiTypes, TokenInv, Phases
<1>4. ReqTypes' /\ CmdTypes' /\ AttemptRules'
  BY <1>0, <1>1, MorePairs DEF TokenInv, ReqTypes, CmdTypes, AttemptRules
<1>5. 0 \notin exchanged'
  BY <1>1, MorePairs
<1>6. RenewalRules'
  BY <1>0, <1>1, <1>5 DEF RenewalRules
<1> QED
  BY <1>2, <1>3, <1>4, <1>6 DEF TokenInv

LEMMA GuiKeeps ==
    ASSUME TokenInv, GuiStart
    PROVE  TokenInv'
<1>0. last \in Nat
  BY PairAssumption DEF TokenInv, ServerTypes
<1>1. ASSUME StartGui PROVE TokenInv'
  BY <1>1 DEF StartGui, TokenInv, ServerTypes, GuiTypes, ReqTypes, CmdTypes, RenewalRules,
              AttemptRules, Phases, server
<1>2. ASSUME SaveRestored PROVE TokenInv'
  BY <1>2 DEF SaveRestored, TokenInv, ServerTypes, GuiTypes, ReqTypes, CmdTypes, RenewalRules,
              AttemptRules, Phases, server
<1>3. ASSUME EndGui PROVE TokenInv'
  <2>1. ServerTypes' /\ CmdTypes' /\ AttemptRules'
    BY <1>3 DEF EndGui, TokenInv, ServerTypes, CmdTypes, AttemptRules, server
  <2>2. GuiTypes'
    BY <1>3, <1>0 DEF EndGui, TokenInv, GuiTypes, Phases, server
  <2>3. Idle \in ReqRecords(last) /\ Idle.at # "renewing"
    BY <1>0 DEF Idle, ReqRecords
  <2>4. ReqTypes'
    BY <1>3, <2>3 DEF EndGui, ReqTypes, server
  <2>5. RenewalRules'
    BY <1>3 DEF EndGui, RenewalRules
  <2> QED
    BY <2>1, <2>2, <2>4, <2>5 DEF TokenInv
<1> QED
  BY <1>1, <1>2, <1>3, RestoreKeeps DEF GuiStart

-----------------------------------------------------------------------------
(* The commands.                                                           *)

(* A command that goes on, perhaps with the next pair, and stores a token  *)
(* it holds, or none.                                                      *)
LEMMA OneCommandKeeps ==
    ASSUME TokenInv, NEW c \in Commands, last' \in last..MaxPair,
           live' \subseteq 1..last', valid' \subseteq 1..last', keyring' \in 0..last',
           faults' \subseteq {"lost", "killed", "reordered"},
           NEW new \in CmdRecords(last'), cmd' = [cmd EXCEPT ![c] = new],
           new.left + new.submitted <= MaxMfaAttempts,
           new.at # "mfa" => new.left = 0 /\ new.submitted = 0,
           UNCHANGED gui
    PROVE  TokenInv'
<1>1. ServerTypes'
  BY MorePairs, PairAssumption DEF ServerTypes, TokenInv
<1>2. GuiTypes' /\ ReqTypes' /\ RenewalRules'
  BY MorePairs DEF TokenInv, GuiTypes, ReqTypes, RenewalRules, gui
<1>3. CmdTypes'
  BY MorePairs DEF CmdTypes
<1>4. AttemptRules'
  BY DEF TokenInv, AttemptRules, CmdTypes
<1> QED
  BY <1>1, <1>2, <1>3, <1>4 DEF TokenInv

LEMMA CommandKeeps ==
    ASSUME TokenInv, NEW c \in Commands, CommandStep(c)
    PROVE  TokenInv'
<1>0. /\ last \in Nat /\ MaxPair \in Nat /\ last <= MaxPair /\ live \subseteq 1..last
      /\ valid \subseteq 1..last /\ keyring \in 0..last
      /\ faults \subseteq {"lost", "killed", "reordered"}
      /\ MaxMfaAttempts \in Nat \ {0}
      /\ cmd \in [Commands -> CmdRecords(last)]
  BY PairAssumption DEF TokenInv, ServerTypes, GuiTypes, CmdTypes
<1>1. PICK old : old = cmd[c]
  OBVIOUS
<1>2. /\ old \in CmdRecords(last) /\ old.held \in 0..last
      /\ old.left \in 0..MaxMfaAttempts /\ old.submitted \in 0..MaxMfaAttempts
      /\ old.left + old.submitted <= MaxMfaAttempts
      /\ old.at # "mfa" => old.left = 0 /\ old.submitted = 0
  BY <1>0, <1>1 DEF CmdRecords, TokenInv, AttemptRules
<1>3. PICK none : none = NoCommand
  OBVIOUS
<1>4. \A n \in Nat : none \in CmdRecords(n)
  BY <1>3, <1>0 DEF NoCommand, CmdRecords
<1>5. none.left = 0 /\ none.submitted = 0
  BY <1>3 DEF NoCommand
<1>6. ASSUME last' = last, live' = live, valid' = valid, keyring' \in 0..last,
             faults' \subseteq {"lost", "killed", "reordered"}, UNCHANGED gui,
             NEW new \in CmdRecords(last), cmd' = [cmd EXCEPT ![c] = new],
             new.left + new.submitted <= MaxMfaAttempts,
             new.at # "mfa" => new.left = 0 /\ new.submitted = 0
      PROVE  TokenInv'
  <2>1. /\ last' \in last..MaxPair /\ live' \subseteq 1..last' /\ valid' \subseteq 1..last'
        /\ keyring' \in 0..last' /\ new \in CmdRecords(last')
    BY <1>0, <1>6
  <2> QED
    BY <1>6, <2>1, OneCommandKeeps
<1>7. ASSUME last' \in last..MaxPair, live' \subseteq 1..last', valid' \subseteq 1..last',
             UNCHANGED <<gui, keyring>>, faults' \subseteq {"lost", "killed", "reordered"}, End(c)
      PROVE  TokenInv'
  <2>1. none \in CmdRecords(last') /\ keyring' \in 0..last' /\ cmd' = [cmd EXCEPT ![c] = none]
    BY <1>0, <1>3, <1>4, <1>7, MorePairs DEF End
  <2>2. none.left + none.submitted <= MaxMfaAttempts
    BY <1>0, <1>5
  <2> QED
    BY <1>5, <1>7, <2>1, <2>2, OneCommandKeeps
<1>8. ASSUME NEW at \in {"loaded", "answered", "working"}, NEW n \in Nat, NEW held \in 0..n,
             last <= n, old.at # "mfa", SetCmd(c, at, held),
             NEW new, new = [at |-> at, held |-> held, left |-> old.left,
                             submitted |-> old.submitted]
      PROVE  /\ new \in CmdRecords(n) /\ new.left + new.submitted <= MaxMfaAttempts
             /\ new.left = 0 /\ new.submitted = 0 /\ cmd' = [cmd EXCEPT ![c] = new]
  <2>1. new \in CmdRecords(n) /\ new.left = 0 /\ new.submitted = 0
    BY <1>2, <1>0, <1>8 DEF CmdRecords
  <2>2. new.left + new.submitted <= MaxMfaAttempts
    BY <2>1, <1>0
  <2>3. [[old EXCEPT !.at = at] EXCEPT !.held = held] = new
    <3>1. old = [at |-> old.at, held |-> old.held, left |-> old.left, submitted |-> old.submitted]
      BY <1>2 DEF CmdRecords
    <3>2. PICK mid : mid = [old EXCEPT !.at = at]
      OBVIOUS
    <3>3. mid = [at |-> at, held |-> old.held, left |-> old.left, submitted |-> old.submitted]
      BY <3>1, <3>2
    <3>4. [mid EXCEPT !.held = held] =
             [at |-> at, held |-> held, left |-> old.left, submitted |-> old.submitted]
      BY <3>3
    <3> QED
      BY <3>2, <3>4, <1>8
  <2>4. cmd' = [cmd EXCEPT ![c] = new]
    BY <1>0, <1>1, <2>3, <1>8 DEF SetCmd
  <2> QED
    BY <2>1, <2>2, <2>4
<1>9. ASSUME NEW n \in Pairs, Exchanged(cmd[c].held, n) \/ LoggedIn(n), SetCmd(c, "answered", n),
             old.at # "mfa", UNCHANGED <<gui, keyring, faults>>
      PROVE  TokenInv'
  <2>1. /\ last' \in last..MaxPair /\ live' \subseteq 1..last' /\ valid' \subseteq 1..last'
        /\ last' = n
    BY <1>9, NextPair
  <2>2. PICK new : new = [at |-> "answered", held |-> n, left |-> old.left,
                          submitted |-> old.submitted]
    OBVIOUS
  <2>3. /\ new \in CmdRecords(last') /\ new.left + new.submitted <= MaxMfaAttempts
        /\ new.left = 0 /\ new.submitted = 0 /\ cmd' = [cmd EXCEPT ![c] = new]
    BY <1>0, <1>8, <1>9, <2>1, <2>2
  <2> QED
    BY <1>0, <1>9, <2>1, <2>3, MorePairs, OneCommandKeeps
<1>10. CASE Load(c) \/ Save(c)
  <2>1. PICK at \in {"loaded", "working"}, held \in 0..last :
           /\ SetCmd(c, at, held) /\ old.at # "mfa" /\ keyring' \in 0..last
           /\ UNCHANGED <<gui, last, live, valid, faults>>
    BY <1>0, <1>1, <1>2, <1>10 DEF Load, Save, Stored, KeepGui, server
  <2>2. PICK new : new = [at |-> at, held |-> held, left |-> old.left,
                          submitted |-> old.submitted]
    OBVIOUS
  <2>3. /\ new \in CmdRecords(last) /\ new.left + new.submitted <= MaxMfaAttempts
        /\ new.left = 0 /\ new.submitted = 0 /\ cmd' = [cmd EXCEPT ![c] = new]
    BY <1>0, <1>8, <2>1, <2>2
  <2> QED
    BY <1>0, <1>6, <2>1, <2>3
<1>11. CASE EnsureAuth(c)
  <2>1. CASE \E n \in Pairs : Exchanged(cmd[c].held, n) /\ SetCmd(c, "answered", n) /\ UNCHANGED faults
    BY <1>1, <1>9, <1>11, <2>1 DEF EnsureAuth, KeepGui
  <2>2. CASE Refused /\ End(c) /\ UNCHANGED faults
    BY <1>0, <1>7, <1>11, <2>2 DEF EnsureAuth, Refused, KeepGui, server
  <2>3. CASE Lost(cmd[c].held) /\ End(c) /\ faults' = faults \cup {"lost"}
    <3>1. PICK n \in Pairs : Exchanged(cmd[c].held, n)
      BY <2>3 DEF Lost
    <3>2. last' \in last..MaxPair /\ live' \subseteq 1..last' /\ valid' \subseteq 1..last'
      BY <3>1, NextPair
    <3> QED
      BY <1>0, <1>7, <1>11, <2>3, <3>2 DEF EnsureAuth, KeepGui
  <2> QED
    BY <1>11, <2>1, <2>2, <2>3 DEF EnsureAuth
<1>12. CASE CmdLogin(c)
  BY <1>1, <1>9, <1>12 DEF CmdLogin, KeepGui
<1>13. CASE Forget(c)
  BY <1>0, <1>13, MorePairs DEF Forget, KeepGui, server, gui, TokenInv, ServerTypes, GuiTypes,
     ReqTypes, CmdTypes, RenewalRules, AttemptRules
<1>14. CASE Work(c) \/ GiveUp(c) \/ Kill(c)
  <2>1. End(c) /\ UNCHANGED <<gui, last, live, valid, keyring>>
    BY <1>14 DEF Work, GiveUp, Kill, KeepGui, server
  <2>2. faults' \subseteq faults \cup {"killed"}
    BY <1>14 DEF Work, GiveUp, Kill
  <2> QED
    BY <1>0, <1>7, <2>1, <2>2
<1>15. CASE Connect(c)
  <2>1. PICK new : new = [at |-> "mfa", held |-> old.held, left |-> MaxMfaAttempts,
                          submitted |-> old.submitted]
    OBVIOUS
  <2>2. new \in CmdRecords(last) /\ new.left + new.submitted <= MaxMfaAttempts /\ new.at = "mfa"
    BY <1>0, <1>1, <1>2, <1>15, <2>1 DEF CmdRecords, Connect
  <2>3. cmd' = [cmd EXCEPT ![c] = new]
    BY <1>0, <1>1, <1>2, <1>15, <2>1 DEF CmdRecords, Connect
  <2> QED
    BY <1>0, <1>6, <1>15, <2>2, <2>3 DEF Connect, KeepGui, server
<1>16. CASE Challenge(c)
  <2>1. PICK new : new = [at |-> "mfa", held |-> old.held, left |-> MaxMfaAttempts - 1,
                          submitted |-> 1]
    OBVIOUS
  <2>2. new \in CmdRecords(last) /\ new.left + new.submitted <= MaxMfaAttempts /\ new.at = "mfa"
    BY <1>0, <1>2, <2>1 DEF CmdRecords
  <2>3. cmd' = [cmd EXCEPT ![c] = new]
    BY <1>0, <1>1, <1>2, <1>16, <2>1 DEF CmdRecords, Challenge, LeftAfterFirst
  <2> QED
    BY <1>0, <1>6, <1>16, <2>2, <2>3 DEF Challenge, KeepGui, server
<1>17. CASE Submit(c)
  <2>1. CASE End(c)
    BY <1>0, <1>7, <1>17, <2>1 DEF Submit, KeepGui, server
  <2>2. CASE cmd' = [cmd EXCEPT ![c].left = @ - 1, ![c].submitted = @ + 1]
    <3>1. PICK new : new = [at |-> "mfa", held |-> old.held, left |-> old.left - 1,
                            submitted |-> old.submitted + 1]
      OBVIOUS
    <3>2. /\ new \in CmdRecords(last) /\ new.left + new.submitted <= MaxMfaAttempts
          /\ new.at = "mfa"
      BY <1>0, <1>1, <1>2, <1>17, <3>1 DEF CmdRecords, Submit
    <3>3. cmd' = [cmd EXCEPT ![c] = new]
      BY <1>0, <1>1, <1>2, <1>17, <2>2, <3>1 DEF CmdRecords, Submit
    <3> QED
      BY <1>0, <1>6, <1>17, <3>2, <3>3 DEF Submit, KeepGui, server
  <2> QED
    BY <1>17, <2>1, <2>2 DEF Submit
<1> QED
  BY <1>10, <1>11, <1>12, <1>13, <1>14, <1>15, <1>16, <1>17 DEF CommandStep

-----------------------------------------------------------------------------
LEMMA NextKeeps == TokenInv /\ [TokenNext]_tokenVars => TokenInv'
<1> SUFFICES ASSUME TokenInv, [TokenNext]_tokenVars PROVE TokenInv'
  OBVIOUS
<1>1. ASSUME NEW n \in valid, Expire(n) PROVE TokenInv'
  BY <1>1 DEF Expire, gui, TokenInv, ServerTypes, GuiTypes, ReqTypes, CmdTypes, RenewalRules,
              AttemptRules
<1>2. CASE UNCHANGED tokenVars
  BY <1>2 DEF tokenVars, TokenInv, ServerTypes, GuiTypes, ReqTypes, CmdTypes, RenewalRules,
              AttemptRules
<1> QED
  BY <1>1, <1>2, RequestKeeps, SavingKeeps, GuiKeeps, CommandKeeps DEF TokenNext

LEMMA InvAlways == TokenSpec => []TokenInv
<1> QED
  BY InitHolds, NextKeeps, PTL DEF TokenSpec

(* The tokens a client holds are pairs the server has given out, only the  *)
(* holder of the lock renews, and no command submits more codes than       *)
(* MAX_MFA_ATTEMPTS.                                                       *)
THEOREM TokensAreTyped == TokenSpec => []TokenTypeOK
<1>1. TokenInv => TokenTypeOK
  BY DEF TokenInv, ServerTypes, GuiTypes, ReqTypes, CmdTypes, ReqRecords, CmdRecords, SaveRecords,
         TokenTypeOK, MaybePair
<1> QED
  BY <1>1, InvAlways, PTL

(* The step that takes the lock finds a token that has not been exchanged. *)
LEMMA LockTaken ==
    ASSUME TokenInv, [TokenNext]_tokenVars, NEW q \in Requests, lock # q, lock' = q
    PROVE  refresh \notin exchanged
<1>0. q # None
  BY NamesAssumption
<1>1. \/ UNCHANGED lock \/ lock' = None
      \/ \E o \in Requests : lock' = o /\ Renew(o)
  BY DEF TokenNext, tokenVars, Expire, gui, RequestStep, Build, Transmit, NoExchangeNeeded, Renew,
     Renewed, Released, SaveToCache, SaveToKeyring, GuiStart, StartGui, Restore, LoginGui,
     SaveRestored, EndGui, CommandStep, Load, EnsureAuth, CmdLogin, Save, Forget, Work, Connect,
     Challenge, Submit, GiveUp, Kill, KeepGui
<1> QED
  BY <1>0, <1>1, RenewKeeps

(* No refresh token is presented again by the desktop client once it has   *)
(* been exchanged for an answer, whatever requests, answers, saves, ends   *)
(* and starts come in between.                                             *)
THEOREM OnePresentation == TokenSpec => NoTokenPresentedTwice
<1>1. TokenInv /\ [TokenNext]_tokenVars =>
         [\A q \in Requests : lock # q /\ lock' = q => refresh \notin exchanged]_tokenVars
  BY LockTaken
<1> QED
  BY <1>1, InvAlways, PTL DEF TokenSpec, NoTokenPresentedTwice

-----------------------------------------------------------------------------
(* What the keyring holds.                                                 *)

(* A token nobody but its holder has yet: it is not stored, and no command *)
(* has loaded it.                                                          *)
Unshared(x) ==
    /\ x # 0 /\ x # keyring
    /\ \A c \in Commands : cmd[c].at = "loaded" => cmd[c].held # x

Renewing == lock # None /\ req[lock].answer # 0

(* A token that waits to be saved has one holder, which saves it once.     *)
OneHolder ==
    /\ phase # "in" => saves = {}
    /\ \A s \in saves : Unshared(s.pair) /\ \A o \in saves : s.pair = o.pair => s = o
    /\ phase = "restored" => Unshared(token)
    /\ Renewing => /\ Unshared(req[lock].answer) /\ req[lock].answer # refresh
                   /\ \A s \in saves : s.pair < req[lock].answer
    /\ \A c \in Commands : cmd[c].at = "answered" =>
          /\ Unshared(cmd[c].held) /\ cmd[c].held # refresh
          /\ phase = "restoring" => cmd[c].held # cache
          /\ phase = "restored" => cmd[c].held # token
          /\ Renewing => cmd[c].held # req[lock].answer
          /\ \A s \in saves : s.pair # cmd[c].held
          /\ \A d \in Commands : d # c /\ cmd[d].at = "answered" => cmd[d].held # cmd[c].held

(* As long as nothing went wrong, what waits to be saved has its session;  *)
(* of the saves of the desktop client, the last one has, or the renewal    *)
(* under way that follows it; and a keyring without one is to be written.  *)
SessionKept ==
    faults = {} =>
        /\ saves # {} =>
              /\ \E s \in saves : s.pair = refresh
              /\ \A s \in saves : s.pair <= refresh
              /\ refresh \in live \/ Renewing
        /\ phase = "restored" => token \in live
        /\ Renewing => req[lock].answer \in live
        /\ \A c \in Commands : cmd[c].at = "answered" => cmd[c].held \in live
        /\ \/ keyring \in live \cup {0} \/ saves # {} \/ phase = "restored" \/ Renewing
           \/ \E c \in Commands : cmd[c].at = "answered"

KeptInv == TokenInv /\ OneHolder /\ SessionKept

(* Of one request, not the renewal under way, only its own record changes. *)
LEMMA AloneKept ==
    ASSUME KeptInv, NEW q \in Requests, lock # q, \A o \in Requests : o # q => req'[o] = req[o],
           UNCHANGED <<last, live, keyring, phase, token, refresh, cache, lock, saves, cmd,
           faults>>
    PROVE  OneHolder' /\ SessionKept'
<1>1. lock # None => lock \in Requests /\ req'[lock] = req[lock]
  BY DEF KeptInv, TokenInv, GuiTypes
<1>2. Renewing' <=> Renewing
  BY <1>1 DEF Renewing
<1>3. OneHolder'
  BY <1>1, <1>2 DEF KeptInv, OneHolder, Unshared, Renewing
<1>4. SessionKept'
  BY <1>1, <1>2 DEF KeptInv, SessionKept, Renewing
<1> QED
  BY <1>3, <1>4

LEMMA RenewKept ==
    ASSUME KeptInv, NEW q \in Requests, Renew(q)
    PROVE  OneHolder' /\ SessionKept'
<1>0. /\ lock = None /\ lock' = q /\ q # None /\ refresh # 0 /\ phase = "in" /\ ~Renewing
      /\ UNCHANGED <<keyring, phase, token, refresh, cache, saves, cmd>>
  BY NamesAssumption DEF Renew, MayRenew, KeptInv, TokenInv, RenewalRules, Renewing
<1>1. PICK a : /\ SetReq(q, "renewing", req[q].header, req[q].stale, a)
               /\ \/ a = 0 /\ UNCHANGED <<server, faults>>
                  \/ a = 0 /\ faults' # {}
                  \/ a \in Pairs /\ Exchanged(refresh, a) /\ UNCHANGED faults
  BY DEF Renew, Refused
<1>2. req'[q].answer = a /\ (Renewing' <=> a # 0)
  BY <1>0, <1>1 DEF SetReq, Renewing, KeptInv, TokenInv, ReqTypes
<1>3. CASE a = 0
  <2>1. ~Renewing'
    BY <1>2, <1>3
  <2>2. OneHolder'
    BY <1>0, <2>1 DEF KeptInv, OneHolder, Unshared
  <2>3. SessionKept'
    BY <1>0, <1>1, <1>3, <2>1, PairAssumption DEF KeptInv, SessionKept, server, Pairs
  <2> QED
    BY <2>2, <2>3
<1>4. CASE a # 0
  <2>1. a \in Pairs /\ Exchanged(refresh, a) /\ UNCHANGED faults
    BY <1>1, <1>4
  <2>2. /\ a = last + 1 /\ last \in Nat /\ live' = (live \ {refresh}) \cup {a}
        /\ refresh \in 0..last /\ keyring \in 0..last
        /\ \A s \in saves : s.pair \in 0..last
        /\ \A c \in Commands : cmd[c].held \in 0..last
    BY <2>1, PairAssumption DEF Exchanged, KeptInv, TokenInv, ServerTypes, GuiTypes, CmdTypes,
       SaveRecords,
                                CmdRecords
  <2>3. a # refresh /\ a # keyring /\ (\A s \in saves : s.pair < a) /\ \A c \in Commands : cmd[c].held # a
    BY <2>2
  <2>4. OneHolder'
    BY <1>0, <1>2, <1>4, <2>3 DEF KeptInv, OneHolder, Unshared, Renewing
  <2>5. SessionKept'
    BY <1>0, <1>2, <1>4, <2>1, <2>2 DEF KeptInv, OneHolder, SessionKept, Renewing
  <2> QED
    BY <2>4, <2>5
<1> QED
  BY <1>3, <1>4

LEMMA RenewedKept ==
    ASSUME KeptInv, NEW q \in Requests, Renewed(q)
    PROVE  OneHolder' /\ SessionKept'
<1>0. /\ lock = q /\ q # None /\ lock' = None /\ phase = "in" /\ ~Renewing'
      /\ (Renewing <=> req[q].answer # 0)
      /\ UNCHANGED <<last, live, keyring, phase, cache, cmd, faults>>
  BY NamesAssumption DEF Renewed, Released, KeptInv, TokenInv, ReqTypes, RenewalRules, server,
     Renewing
<1>1. CASE req[q].answer = 0
  <2>1. UNCHANGED <<token, refresh, saves>>
    BY <1>1 DEF Renewed
  <2>2. OneHolder'
    BY <1>0, <2>1 DEF KeptInv, OneHolder, Unshared
  <2>3. SessionKept'
    BY <1>0, <1>1, <2>1 DEF KeptInv, SessionKept
  <2> QED
    BY <2>2, <2>3
<1>2. CASE req[q].answer # 0
  <2>1. PICK a : a = req[q].answer
    OBVIOUS
  <2>2. PICK new : new = [pair |-> a, cached |-> FALSE]
    OBVIOUS
  <2>3. new.pair = a /\ token' = a /\ refresh' = a /\ saves' = saves \cup {new}
    BY <1>2, <2>1, <2>2 DEF Renewed
  <2>4. /\ Renewing /\ Unshared(a) /\ a # refresh /\ (\A s \in saves : s.pair < a)
        /\ \A c \in Commands : cmd[c].at = "answered" => cmd[c].held # a
    BY <1>0, <1>2, <2>1 DEF KeptInv, OneHolder
  <2>5. a \in Int /\ \A s \in saves : s.pair \in Int /\ s.pair # a
    <3>1. a \in 0..last /\ (\A s \in saves : s.pair \in 1..last) /\ last \in Nat
      BY <2>1, PairAssumption DEF KeptInv, TokenInv, ServerTypes, GuiTypes, ReqTypes,
         ReqRecords, SaveRecords
    <3> QED
      BY <2>4, <3>1
  <2>6. OneHolder'
    <3>1. \A c \in Commands : cmd[c].at = "answered" =>
             /\ Unshared(cmd[c].held)
             /\ \A s \in saves : s.pair # cmd[c].held
             /\ \A d \in Commands : d # c /\ cmd[d].at = "answered" => cmd[d].held # cmd[c].held
      BY DEF KeptInv, OneHolder
    <3>2. \A s \in saves : Unshared(s.pair) /\ \A o \in saves : s.pair = o.pair => s = o
      BY DEF KeptInv, OneHolder
    <3>3. Unshared(a)' /\ \A x : Unshared(x)' <=> Unshared(x)
      BY <1>0, <2>4 DEF Unshared
    <3> QED
      BY <1>0, <2>3, <2>4, <2>5, <3>1, <3>2, <3>3 DEF OneHolder
  <2>7. SessionKept'
    BY <1>0, <1>2, <2>1, <2>3, <2>4, <2>5 DEF KeptInv, SessionKept
  <2> QED
    BY <2>6, <2>7
<1> QED
  BY <1>1, <1>2

LEMMA SavingKept ==
    ASSUME KeptInv, NEW s \in saves, SaveToCache(s) \/ SaveToKeyring(s)
    PROVE  OneHolder' /\ SessionKept'
<1>0. /\ UNCHANGED <<last, live, phase, token, refresh, lock, req, cmd>>
      /\ (Renewing' <=> Renewing) /\ phase = "in"
  BY DEF SaveToCache, SaveToKeyring, server, Renewing, KeptInv, OneHolder
<1>1. /\ \A o \in saves : /\ Unshared(o.pair) /\ o \in SaveRecords(last) /\ o.pair \in Int
                          /\ \A p \in saves : o.pair = p.pair => o = p
      /\ Renewing => /\ Unshared(req[lock].answer) /\ req[lock].answer # refresh
                     /\ \A o \in saves : o.pair < req[lock].answer
      /\ \A c \in Commands : cmd[c].at = "answered" =>
            /\ Unshared(cmd[c].held) /\ cmd[c].held # refresh
            /\ Renewing => cmd[c].held # req[lock].answer
            /\ \A o \in saves : o.pair # cmd[c].held
            /\ \A d \in Commands : d # c /\ cmd[d].at = "answered" => cmd[d].held # cmd[c].held
  <2>1. \A o \in saves : o \in SaveRecords(last) /\ o.pair \in Int
    BY PairAssumption DEF KeptInv, TokenInv, ServerTypes, GuiTypes, SaveRecords
  <2> QED
    BY <2>1 DEF KeptInv, OneHolder
<1>2. CASE SaveToCache(s)
  <2>1. PICK new : new = [s EXCEPT !.cached = TRUE]
    OBVIOUS
  <2>2. /\ saves' = (saves \ {s}) \cup {new} /\ new.pair = s.pair /\ UNCHANGED <<keyring, faults>>
    BY <1>1, <1>2, <2>1 DEF SaveToCache, SaveRecords
  <2>3. \A x : Unshared(x)' <=> Unshared(x)
    BY <1>0, <2>2 DEF Unshared
  <2>4. \A o \in saves' : \E p \in saves : o.pair = p.pair /\ (o = p \/ (o = new /\ p = s))
    BY <2>2
  <2>5. OneHolder'
    BY <1>0, <1>1, <2>2, <2>3 DEF OneHolder, Renewing
  <2>6. SessionKept'
    BY <1>0, <2>2 DEF KeptInv, SessionKept, Renewing
  <2> QED
    BY <2>5, <2>6
<1>3. CASE SaveToKeyring(s)
  <2>1. /\ keyring' = s.pair /\ saves' = saves \ {s}
        /\ faults' = {} => faults = {} /\ \A o \in saves : ~(o.pair < s.pair)
    BY <1>3 DEF SaveToKeyring
  <2>2. \A x : Unshared(x) /\ x # s.pair => Unshared(x)'
    BY <1>0, <2>1 DEF Unshared
  <2>3. Renewing => s.pair # req[lock].answer
    BY <1>1, PairAssumption DEF KeptInv, TokenInv, GuiTypes, ReqTypes, ReqRecords, Renewing,
       ServerTypes
  <2>4. OneHolder'
    BY <1>0, <1>1, <2>1, <2>2, <2>3 DEF OneHolder, Renewing
  <2>5. ASSUME faults' = {}
        PROVE  /\ saves' # {} => \E o \in saves' : o.pair = refresh
               /\ \A o \in saves' : o.pair <= refresh
               /\ refresh \in live \/ Renewing
               /\ saves' = {} => s.pair = refresh
               /\ Renewing => req[lock].answer \in live
               /\ \A c \in Commands : cmd[c].at = "answered" => cmd[c].held \in live
    <3>1. /\ refresh \in live \/ Renewing
          /\ \A o \in saves : o.pair <= refresh
          /\ Renewing => req[lock].answer \in live
          /\ \A c \in Commands : cmd[c].at = "answered" => cmd[c].held \in live
      BY <2>1, <2>5 DEF KeptInv, SessionKept
    <3>2. PICK p \in saves : p.pair = refresh
      BY <2>1, <2>5 DEF KeptInv, SessionKept
    <3>3. p = s => saves = {s}
      <4>1. ASSUME p = s, NEW o \in saves PROVE o = s
        <5>1. o.pair <= s.pair /\ ~(o.pair < s.pair) /\ o.pair \in Int /\ s.pair \in Int
          BY <1>1, <2>1, <2>5, <3>1, <3>2, <4>1
        <5>2. o.pair = s.pair
          BY <5>1
        <5> QED
          BY <1>1, <5>2
      <4> QED
        BY <4>1
    <3> QED
      BY <2>1, <3>1, <3>2, <3>3
  <2>6. SessionKept'
    BY <1>0, <2>1, <2>5 DEF SessionKept, Renewing
  <2> QED
    BY <2>4, <2>6
<1> QED
  BY <1>2, <1>3

(* A pair the server has just given out is nobody's but the caller's.      *)
LEMMA NewPair ==
    ASSUME KeptInv, NEW r, NEW n \in Pairs, Exchanged(r, n) \/ LoggedIn(n)
    PROVE  /\ n # 0 /\ n # keyring /\ n # refresh /\ n # cache /\ n # token
           /\ \A c \in Commands : cmd[c].held # n
           /\ \A s \in saves : s.pair # n
           /\ \A q \in Requests : req[q].answer # n
           /\ n \in live' /\ live \subseteq live' \cup (IF Exchanged(r, n) THEN {r} ELSE {})
<1>1. n = last + 1 /\ last \in Nat
  BY PairAssumption DEF Exchanged, LoggedIn, KeptInv, TokenInv, ServerTypes
<1>2. /\ keyring \in 0..last /\ refresh \in 0..last /\ cache \in 0..last /\ token \in 0..last
      /\ \A c \in Commands : cmd[c].held \in 0..last
      /\ \A s \in saves : s.pair \in 1..last
      /\ \A q \in Requests : req[q].answer \in 0..last
  BY DEF KeptInv, TokenInv, ServerTypes, GuiTypes, CmdTypes, ReqTypes, SaveRecords, CmdRecords,
     ReqRecords
<1>3. n \in live' /\ live \subseteq live' \cup (IF Exchanged(r, n) THEN {r} ELSE {})
  BY DEF Exchanged, LoggedIn
<1>4. \A x \in 0..last : x # n
  BY <1>1
<1>5. n # 0 /\ \A x \in 1..last : x # n
  BY <1>1
<1> QED
  BY <1>2, <1>3, <1>4, <1>5

LEMMA GuiKept ==
    ASSUME KeptInv, GuiStart
    PROVE  OneHolder' /\ SessionKept'
<1>1. CASE StartGui
  <2>1. /\ phase = "off" /\ cache' = keyring /\ phase' \in {"login", "restoring"} /\ ~Renewing /\ ~Renewing'
        /\ saves = {} /\ UNCHANGED <<last, live, keyring, token, refresh, lock, saves, req, cmd, faults>>
    BY <1>1 DEF StartGui, KeptInv, TokenInv, RenewalRules, OneHolder, Renewing, server
  <2>2. OneHolder'
    BY <2>1 DEF KeptInv, OneHolder, Unshared
  <2>3. SessionKept'
    BY <2>1 DEF KeptInv, SessionKept
  <2> QED
    BY <2>2, <2>3
<1>2. CASE SaveRestored
  <2>1. /\ phase = "restored" /\ cache' = token /\ keyring' = token /\ refresh' = token /\ phase' = "in"
        /\ ~Renewing /\ ~Renewing' /\ saves = {}
        /\ UNCHANGED <<last, live, token, lock, saves, req, cmd, faults>>
    BY <1>2 DEF SaveRestored, KeptInv, TokenInv, RenewalRules, OneHolder, Renewing, server
  <2>2. OneHolder'
    BY <2>1 DEF KeptInv, OneHolder, Unshared
  <2>3. SessionKept'
    BY <2>1 DEF KeptInv, SessionKept
  <2> QED
    BY <2>2, <2>3
<1>3. CASE EndGui
  <2>1. /\ phase' = "off" /\ refresh' = 0 /\ cache' = 0 /\ lock' = None /\ saves' = {}
        /\ UNCHANGED <<last, live, keyring, cmd>> /\ ~Renewing'
        /\ faults' = {} => /\ faults = {} /\ saves = {} /\ phase # "restored" /\ \A q \in Requests : req[q].answer = 0
    BY <1>3 DEF EndGui, Renewing, server
  <2>2. OneHolder'
    BY <2>1 DEF KeptInv, OneHolder, Unshared
  <2>3. faults' = {} => ~Renewing
    BY <2>1 DEF KeptInv, TokenInv, GuiTypes, Renewing
  <2>4. SessionKept'
    BY <2>1, <2>3 DEF KeptInv, SessionKept
  <2> QED
    BY <2>2, <2>4
<1>4. ASSUME phase \in {"restoring", "login"}, phase' \in {"restored", "login"},
             UNCHANGED <<keyring, refresh, cache, lock, saves, req, cmd>>,
             \/ UNCHANGED <<last, live>> /\ phase' = "login"
             \/ faults' # {} /\ phase' = "login"
             \/ /\ phase' = "restored"
                /\ \E n \in Pairs : /\ token' = n /\ n # 0 /\ n # keyring /\ n \in live'
                                   /\ \A c \in Commands : cmd[c].held # n
                                   /\ live \subseteq live' \cup (IF phase = "restoring" THEN {cache} ELSE {}),
             faults \subseteq faults'
      PROVE  OneHolder' /\ SessionKept'
  <2>1. ~Renewing /\ ~Renewing' /\ saves = {}
    BY <1>4 DEF KeptInv, TokenInv, RenewalRules, OneHolder, Renewing
  <2>2. OneHolder'
    BY <1>4, <2>1 DEF KeptInv, OneHolder, Unshared
  <2>3. SessionKept'
    <3>1. \A c \in Commands : cmd[c].at = "answered" /\ phase = "restoring" => cmd[c].held # cache
      BY DEF KeptInv, OneHolder
    <3>2. phase # "restored"
      BY <1>4
    <3> QED
      BY <1>4, <2>1, <3>1, <3>2 DEF KeptInv, SessionKept
  <2> QED
    BY <2>2, <2>3
<1>5. CASE Restore
  <2>1. CASE /\ \E n \in Pairs : Exchanged(cache, n) /\ token' = n
             /\ phase' = "restored" /\ UNCHANGED faults
    BY <1>4, <1>5, <2>1, NewPair DEF Restore
  <2>2. CASE Refused /\ phase' = "login" /\ UNCHANGED faults
    BY <1>4, <1>5, <2>2 DEF Restore, Refused, server
  <2>3. CASE phase' = "login" /\ faults' = faults \cup {"lost"}
    BY <1>4, <1>5, <2>3 DEF Restore
  <2> QED
    BY <1>5, <2>1, <2>2, <2>3 DEF Restore
<1>6. CASE LoginGui
  <2>1. PICK n \in Pairs : LoggedIn(n) /\ token' = n
    BY <1>6 DEF LoginGui
  <2>2. live \subseteq live'
    BY <2>1 DEF LoggedIn
  <2>3. n # 0 /\ n # keyring /\ n \in live' /\ \A c \in Commands : cmd[c].held # n
    BY <2>1, NewPair
  <2> QED
    BY <1>4, <1>6, <2>1, <2>2, <2>3 DEF LoginGui
<1> QED
  BY <1>1, <1>2, <1>3, <1>5, <1>6 DEF GuiStart

(* A command that has nothing to save, or will not have.                   *)
LEMMA QuietCommand ==
    ASSUME KeptInv, NEW c \in Commands, \A d \in Commands : d # c => cmd'[d] = cmd[d],
           cmd'[c].at \notin {"loaded", "answered"}, UNCHANGED gui,
           live \subseteq live' \/ faults' # {}, keyring' \in {keyring, 0}, faults \subseteq faults',
           cmd[c].at = "answered" => faults' # {}
    PROVE  OneHolder' /\ SessionKept'
<1>1. (Renewing' <=> Renewing) /\ UNCHANGED <<phase, token, refresh, cache, lock, saves, req>>
  BY DEF gui, Renewing
<1>2. \A x : Unshared(x) => Unshared(x)'
  BY DEF Unshared
<1>3. OneHolder'
  BY <1>1, <1>2 DEF KeptInv, OneHolder
<1>4. SessionKept'
  BY <1>1 DEF KeptInv, SessionKept
<1> QED
  BY <1>3, <1>4

LEMMA AnsweredCommand ==
    ASSUME KeptInv, NEW c \in Commands, NEW r, NEW n \in Pairs,
           LoggedIn(n) \/ (Exchanged(r, n) /\ cmd[c].at = "loaded" /\ r = cmd[c].held),
           \A d \in Commands : d # c => cmd'[d] = cmd[d],
           cmd'[c].at = "answered", cmd'[c].held = n, UNCHANGED <<gui, keyring, faults>>
    PROVE  OneHolder' /\ SessionKept'
<1>1. (Renewing' <=> Renewing) /\ UNCHANGED <<phase, token, refresh, cache, lock, saves, req>>
  BY DEF gui, Renewing
<1>2. /\ n # 0 /\ n # keyring /\ n # refresh /\ n # cache /\ n # token
      /\ \A d \in Commands : cmd[d].held # n
      /\ \A s \in saves : s.pair # n
      /\ n \in live'
      /\ Renewing => req[lock].answer # n
  BY NewPair DEF KeptInv, TokenInv, GuiTypes, Renewing
<1>3. \A x : Unshared(x) => Unshared(x)'
  BY DEF Unshared
<1>4. Unshared(n)'
  BY <1>2 DEF Unshared
<1>5. OneHolder'
  BY <1>1, <1>2, <1>3, <1>4 DEF KeptInv, OneHolder
<1>6. \A x : Unshared(x) /\ x \in live => x \in live'
  BY DEF Exchanged, LoggedIn, Unshared
<1>7. faults = {} /\ saves # {} => Unshared(refresh)
  BY DEF KeptInv, OneHolder, SessionKept
<1>8. SessionKept'
  BY <1>1, <1>2, <1>6, <1>7 DEF KeptInv, OneHolder, SessionKept
<1> QED
  BY <1>5, <1>8

LEMMA CommandKept ==
    ASSUME KeptInv, NEW c \in Commands, CommandStep(c)
    PROVE  OneHolder' /\ SessionKept'
<1>0. cmd \in [Commands -> CmdRecords(last)] /\ cmd[c] \in CmdRecords(last)
  BY DEF KeptInv, TokenInv, CmdTypes
<1>1. ASSUME NEW at, NEW held, SetCmd(c, at, held)
      PROVE  cmd'[c].at = at /\ cmd'[c].held = held /\ \A d \in Commands : d # c => cmd'[d] = cmd[d]
  BY <1>0, <1>1 DEF SetCmd, CmdRecords
<1>2. ASSUME End(c) PROVE cmd'[c].at = "idle" /\ \A d \in Commands : d # c => cmd'[d] = cmd[d]
  BY <1>0, <1>2 DEF End, NoCommand
<1>3. CASE Load(c)
  <2>1. /\ cmd'[c].at = "loaded" /\ cmd'[c].held = keyring /\ (\A d \in Commands : d # c => cmd'[d] = cmd[d])
        /\ cmd[c].at = "idle" /\ UNCHANGED <<gui, keyring, last, live, faults>>
    BY <1>1, <1>3 DEF Load, KeepGui, server
  <2>2. (Renewing' <=> Renewing) /\ UNCHANGED <<phase, token, refresh, cache, lock, saves, req>>
    BY <2>1 DEF gui, Renewing
  <2>3. \A x : Unshared(x) => Unshared(x)'
    BY <2>1 DEF Unshared
  <2>4. OneHolder'
    BY <2>1, <2>2, <2>3 DEF KeptInv, OneHolder
  <2>5. SessionKept'
    BY <2>1, <2>2 DEF KeptInv, SessionKept
  <2> QED
    BY <2>4, <2>5
<1>4. CASE Save(c)
  <2>1. PICK n : n = cmd[c].held
    OBVIOUS
  <2>2. /\ cmd'[c].at = "working" /\ (\A d \in Commands : d # c => cmd'[d] = cmd[d]) /\ keyring' = n
        /\ cmd[c].at = "answered" /\ UNCHANGED <<gui, last, live, faults>>
    BY <1>1, <1>4, <2>1 DEF Save, Stored, KeepGui, server
  <2>3. (Renewing' <=> Renewing) /\ UNCHANGED <<phase, token, refresh, cache, lock, saves, req>>
    BY <2>2 DEF gui, Renewing
  <2>4. \A x : Unshared(x) /\ x # n => Unshared(x)'
    BY <2>2 DEF Unshared
  <2>5. OneHolder'
    BY <2>1, <2>2, <2>3, <2>4 DEF KeptInv, OneHolder
  <2>6. SessionKept'
    BY <2>1, <2>2, <2>3 DEF KeptInv, SessionKept
  <2> QED
    BY <2>5, <2>6
<1>5. CASE EnsureAuth(c)
  <2>1. cmd[c].at = "loaded" /\ UNCHANGED <<gui, keyring>>
    BY <1>5 DEF EnsureAuth, KeepGui
  <2>2. CASE \E n \in Pairs : Exchanged(cmd[c].held, n) /\ SetCmd(c, "answered", n) /\ UNCHANGED faults
    BY <1>1, <2>1, <2>2, AnsweredCommand
  <2>3. CASE End(c) /\ (Refused \/ faults' # {}) /\ faults \subseteq faults'
    <3>1. live \subseteq live' \/ faults' # {}
      BY <2>3 DEF Refused, server
    <3> QED
      BY <1>2, <2>1, <2>3, <3>1, QuietCommand
  <2> QED
    BY <1>5, <2>2, <2>3 DEF EnsureAuth
<1>6. CASE CmdLogin(c)
  BY <1>1, <1>6, AnsweredCommand DEF CmdLogin, KeepGui
<1>7. CASE Forget(c)
  <2>1. cmd[c].at = "idle" /\ UNCHANGED <<gui, live, cmd, faults>> /\ keyring' = 0
    BY <1>7 DEF Forget, KeepGui, server
  <2> QED
    BY <2>1, QuietCommand
<1>8. CASE Work(c) \/ GiveUp(c) \/ Kill(c) \/ Connect(c) \/ Challenge(c) \/ Submit(c)
  <2>1. /\ UNCHANGED <<gui, live, keyring>> /\ faults \subseteq faults'
        /\ cmd[c].at = "answered" => faults' # {}
    BY <1>8 DEF Work, GiveUp, Kill, Connect, Challenge, Submit, KeepGui, server
  <2>2. /\ cmd'[c].at \in {"idle", "mfa"}
        /\ \A d \in Commands : d # c => cmd'[d] = cmd[d]
    <3>1. CASE End(c)
      BY <1>2, <3>1
    <3>2. CASE ~End(c)
      BY <1>0, <1>8, <3>2 DEF Work, GiveUp, Kill, Connect, Challenge, Submit, CmdRecords
    <3> QED
      BY <3>1, <3>2
  <2> QED
    BY <2>1, <2>2, QuietCommand
<1> QED
  BY <1>3, <1>4, <1>5, <1>6, <1>7, <1>8 DEF CommandStep

LEMMA KeptStep == KeptInv /\ [TokenNext]_tokenVars => KeptInv'
<1> SUFFICES ASSUME KeptInv, [TokenNext]_tokenVars PROVE OneHolder' /\ SessionKept'
  BY NextKeeps DEF KeptInv
<1>1. CASE (\E n \in valid : Expire(n)) \/ UNCHANGED tokenVars
  <2>1. UNCHANGED <<last, live, keyring, phase, token, refresh, cache, lock, saves, req, cmd,
  faults>>
    BY <1>1 DEF Expire, tokenVars, gui
  <2> QED
    BY <2>1 DEF KeptInv, OneHolder, SessionKept, Unshared, Renewing
<1>2. ASSUME NEW q \in Requests, RequestStep(q) PROVE OneHolder' /\ SessionKept'
  <2>1. CASE Build(q) \/ Transmit(q) \/ NoExchangeNeeded(q)
    <3>1. /\ UNCHANGED <<last, live, keyring, phase, token, refresh, cache, lock, saves, cmd, faults>>
          /\ req[q].at # "renewing" /\ \A o \in Requests : o # q => req'[o] = req[o]
      BY <2>1 DEF Build, Transmit, NoExchangeNeeded, MayRenew, SetReq, server, KeptInv,
         TokenInv, ReqTypes
    <3>2. lock # q
      BY <3>1, NamesAssumption DEF KeptInv, TokenInv, RenewalRules
    <3> QED
      BY <3>1, <3>2, AloneKept
  <2> QED
    BY <1>2, <2>1, RenewKept, RenewedKept DEF RequestStep
<1> QED
  BY <1>1, <1>2, SavingKept, GuiKept, CommandKept DEF TokenNext

(* For any number of requests, commands and pairs, and however the exits,  *)
(* starts, logins, renewals and saves of both programs fall together: once *)
(* nothing is being exchanged or saved, the keyring holds a token that has *)
(* its session, or none - unless an answer was lost, a program was killed  *)
(* between the answer and the save, or two saves overtook one another.     *)
THEOREM KeyringIsAlive == TokenSpec => []KeyringRestores
<1>1. TokenInit => KeptInv
  <2>1. TokenInit => OneHolder /\ SessionKept
    BY DEF TokenInit, OneHolder, SessionKept, Renewing, NoCommand
  <2> QED
    BY <2>1, InitHolds DEF KeptInv
<1>2. KeptInv => KeyringRestores
  BY DEF KeptInv, SessionKept, KeyringRestores, Settled, Renewing
<1> QED
  BY <1>1, <1>2, KeptStep, PTL DEF TokenSpec

-----------------------------------------------------------------------------
(* Whose answer it is.                                                     *)

(* The lock is held by a request that waits for the answer to its          *)
(* exchange, and the tokens are still those it began with: both of one     *)
(* pair, older than the one the answer brings.                             *)
RenewsThePresent ==
    lock # None =>
        /\ req[lock].at = "renewing" /\ req[lock].stale = token /\ refresh = token
        /\ req[lock].answer # 0 => token < req[lock].answer

PresentInv == /\ phase = "in" => refresh = token
              /\ RenewsThePresent

LEMMA PresentRequest ==
    ASSUME TokenInv, PresentInv, NEW q \in Requests, RequestStep(q)
    PROVE  PresentInv' /\ phase' = phase /\ token <= token'
<1>0. /\ token \in 0..last /\ last \in Nat /\ req \in [Requests -> ReqRecords(last)]
      /\ q # None /\ (lock # None => lock \in Requests)
  BY PairAssumption, NamesAssumption DEF TokenInv, ServerTypes, GuiTypes, ReqTypes
<1>1. CASE Build(q) \/ Transmit(q) \/ NoExchangeNeeded(q)
  <2>1. /\ UNCHANGED <<phase, token, refresh, lock>>
        /\ req[q].at # "renewing" /\ \A o \in Requests : o # q => req'[o] = req[o]
    BY <1>0, <1>1 DEF Build, Transmit, NoExchangeNeeded, MayRenew, SetReq
  <2>2. lock # q
    BY <1>0, <2>1 DEF PresentInv, RenewsThePresent
  <2> QED
    BY <1>0, <2>1, <2>2 DEF PresentInv, RenewsThePresent
<1>2. CASE Renew(q)
  <2>1. /\ lock' = q /\ phase = "in" /\ token = req[q].stale
        /\ UNCHANGED <<phase, token, refresh>>
    BY <1>2 DEF Renew, MayRenew, TokenInv, RenewalRules
  <2>2. PICK a : /\ SetReq(q, "renewing", req[q].header, req[q].stale, a)
                 /\ a # 0 => Exchanged(refresh, a)
    BY <1>2 DEF Renew
  <2>3. a # 0 => token < a
    BY <1>0, <2>2 DEF Exchanged
  <2>4. req'[q].at = "renewing" /\ req'[q].stale = req[q].stale /\ req'[q].answer = a
    BY <1>0, <2>2 DEF SetReq
  <2> QED
    BY <1>0, <2>1, <2>3, <2>4 DEF PresentInv, RenewsThePresent
<1>3. CASE Renewed(q)
  <2>1. lock = q /\ lock' = None /\ phase' = phase
    BY <1>3 DEF Renewed, Released, TokenInv, ReqTypes
  <2>2. CASE req[q].answer = 0
    BY <1>0, <1>3, <2>1, <2>2 DEF Renewed, PresentInv, RenewsThePresent
  <2>3. CASE req[q].answer # 0
    <3>1. token' = req[q].answer /\ refresh' = req[q].answer
      BY <1>3, <2>3 DEF Renewed
    <3>2. token < req[q].answer /\ req[q].answer \in 0..last
      BY <1>0, <2>1, <2>3 DEF PresentInv, RenewsThePresent, ReqRecords
    <3> QED
      BY <1>0, <2>1, <3>1, <3>2 DEF PresentInv, RenewsThePresent
  <2> QED
    BY <2>2, <2>3
<1> QED
  BY <1>1, <1>2, <1>3 DEF RequestStep

LEMMA PresentGui ==
    ASSUME TokenInv, PresentInv, GuiStart
    PROVE  PresentInv' /\ (phase' # "off" => token <= token')
<1>0. /\ token \in 0..last /\ last \in Nat
      /\ phase # "in" => lock = None
  BY PairAssumption DEF TokenInv, ServerTypes, GuiTypes, RenewalRules
<1>1. CASE StartGui \/ EndGui
  BY <1>0, <1>1 DEF StartGui, EndGui, PresentInv, RenewsThePresent
<1>2. CASE Restore \/ LoginGui
  <2>1. phase # "in" /\ phase' # "in" /\ UNCHANGED lock
    BY <1>2 DEF Restore, LoginGui
  <2>2. UNCHANGED token \/ \E n \in Pairs : (Exchanged(cache, n) \/ LoggedIn(n)) /\ token' = n
    BY <1>2 DEF Restore, LoginGui
  <2>3. token <= token'
    BY <1>0, <2>2 DEF Exchanged, LoggedIn
  <2> QED
    BY <1>0, <2>1, <2>3 DEF PresentInv, RenewsThePresent
<1>3. CASE SaveRestored
  BY <1>0, <1>3 DEF SaveRestored, PresentInv, RenewsThePresent
<1> QED
  BY <1>1, <1>2, <1>3 DEF GuiStart

LEMMA PresentStep ==
    ASSUME TokenInv, PresentInv, [TokenNext]_tokenVars
    PROVE  PresentInv' /\ (phase' # "off" => token <= token')
<1>0. token \in 0..last /\ last \in Nat
  BY PairAssumption DEF TokenInv, ServerTypes, GuiTypes
<1>1. CASE \/ \E n \in valid : Expire(n)
           \/ \E s \in saves : SaveToCache(s) \/ SaveToKeyring(s)
           \/ \E c \in Commands : CommandStep(c)
           \/ UNCHANGED tokenVars
  <2>1. UNCHANGED <<phase, token, refresh, lock, req>>
    BY <1>1 DEF Expire, gui, tokenVars, SaveToCache, SaveToKeyring, CommandStep, Load, EnsureAuth,
       CmdLogin, Save, Forget, Work, Connect, Challenge, Submit, GiveUp, Kill, KeepGui
  <2> QED
    BY <1>0, <2>1 DEF PresentInv, RenewsThePresent
<1> QED
  BY <1>1, PresentRequest, PresentGui DEF TokenNext

LEMMA PresentAlways == TokenSpec => [](TokenInv /\ PresentInv)
<1>1. TokenInit => PresentInv
  BY DEF TokenInit, PresentInv, RenewsThePresent
<1> QED
  BY <1>1, PresentStep, InvAlways, PTL DEF TokenSpec

(* For any number of requests refused at once, and whatever exits, logins  *)
(* and commands come in between: nobody holds refresh_lock but a request   *)
(* that waits for the answer to its exchange, and nobody has replaced the  *)
(* tokens it is about to replace (api.rs 133-150, the two setters before   *)
(* the guard is dropped). EachRequestGetsItsTurn rests on it.               *)
THEOREM RenewalsDoNotCross == TokenSpec => []RenewsThePresent
BY PresentAlways, PTL DEF PresentInv

(* An answer that comes late never puts an older token back: as long as    *)
(* the desktop client runs, the access token it sends only grows newer.    *)
THEOREM TokensOnlyGrowNewer == TokenSpec => [][phase' # "off" => token <= token']_tokenVars
<1>1. TokenInv /\ PresentInv /\ [TokenNext]_tokenVars => [phase' # "off" => token <= token']_tokenVars
  BY PresentStep
<1> QED
  BY <1>1, PresentAlways, PTL DEF TokenSpec
=============================================================================
