--------------------------- MODULE ProgramProofs ---------------------------
(***************************************************************************)
(* Proofs about the parts of the programs that share no state with one     *)
(* another, for any number of writers, callers, commands, servers, tasks,  *)
(* profiles, entries, viewers, logins and clicks and any capacities: the   *)
(* configuration of the server (Configuration), client.toml                *)
(* (ClientSettings), the settings window (ProfileWindow), the windows of   *)
(* lists (ListWindow), the log as others see it (LogStream), and the tray  *)
(* and the status window (StatusFeed). Each part has its inductive         *)
(* invariant, a lemma for each kind of step, and its theorem. Last, the    *)
(* form of a profile (ProfileForm), for lists and numbers of any size.     *)
(***************************************************************************)
EXTENDS Configuration, ClientSettings, StatusFeed, ProfileForm, ProfileWindow, ListWindow,
        LogStream, FiniteSetTheorems, SequenceTheorems, WellFoundedInduction, TLAPS

-----------------------------------------------------------------------------
(* The configuration.                                                      *)

Waits == {"idle", "invalidate", "build", "store lax", "store strict"}

ConfigTypes ==
    /\ disk \in Settings \cup {Torn, Blank} /\ held \in Settings \cup {Unset}
    /\ acked \in Settings \cup {Unset} /\ client \in BOOLEAN \cup {Unset}
    /\ step \in [Callers -> Waits] /\ excused \in BOOLEAN

(* What the API cannot change is in memory as it is on disk, and the whole *)
(* of it as long as no write stops half-way: a save merges the two without *)
(* loss.                                                                   *)
OnDisk ==
    acked # Unset /\ disk # Torn =>
        /\ disk = acked
        /\ held # Unset => /\ held.tls = disk.tls
                           /\ held.allowPlain = disk.allowPlain

(* A document that holds what the API cannot change, or does not parse, is *)
(* the settings themselves once they are merged into it.                   *)
LEMMA MergeKeepsAll ==
    ASSUME NEW document \in Settings \cup {Torn}, NEW s \in Settings,
           document # Torn => document.allowPlain = s.allowPlain
    PROVE  Merged(document, s) = s
<1>1. ASSUME document # Torn, NEW f \in {"lan", "tls", "allowPlain", "skipVerify"}
      PROVE  Merged(document, s)[f] = s[f]
  BY <1>1, NoSettingsAssumption DEF Merged, Settings, SavedFields
<1>2. CASE document # Torn
  <2>1. DOMAIN s = {"lan", "tls", "allowPlain", "skipVerify"}
    BY DEF Settings
  <2>2. Merged(document, s) = [f \in {"lan", "tls", "allowPlain", "skipVerify"} |-> Merged(document, s)[f]]
    BY <1>2, <2>1 DEF Merged
  <2>3. s = [f \in {"lan", "tls", "allowPlain", "skipVerify"} |-> s[f]]
    BY <2>1 DEF Settings
  <2> QED
    BY <1>1, <1>2, <2>2, <2>3
<1> QED
  BY <1>2 DEF Merged

LEMMA MergeIsSettings ==
    ASSUME NEW document \in Settings \cup {Torn, Blank}, NEW s \in Settings
    PROVE  Merged(document, s) \in Settings
<1>1. CASE document = Torn
  BY <1>1 DEF Merged
<1>2. CASE document # Torn
  <2>1. DOMAIN s = {"lan", "tls", "allowPlain", "skipVerify"}
    BY DEF Settings
  <2>2. ASSUME NEW f \in {"lan", "tls", "allowPlain", "skipVerify"}
        PROVE  (IF f \in SavedFields THEN s[f]
                ELSE document # Blank /\ document[f]) \in BOOLEAN
    BY <1>2, <2>2 DEF Settings
  <2> QED
    BY <1>2, <2>1, <2>2 DEF Merged, Settings
<1> QED
  BY <1>1, <1>2

LEMMA ConfigStep ==
    ASSUME ConfigTypes, OnDisk, CachedClientIsCurrent, [ConfigNext]_configVars
    PROVE  ConfigTypes' /\ OnDisk' /\ CachedClientIsCurrent'
<1> USE NoSettingsAssumption DEF ConfigTypes, OnDisk, CachedClientIsCurrent, Waits
<1>1. CASE LoadConfig
  BY <1>1 DEF LoadConfig, Loads
<1>a. ASSUME NEW c \in Changes, held # Unset
      PROVE  /\ With(held, c) \in Settings /\ With(held, c).tls = held.tls
             /\ With(held, c).allowPlain = held.allowPlain /\ With(held, c).skipVerify = c.skipVerify
  BY <1>a DEF With, Settings, Changes
<1>b. ASSUME NEW c \in Changes, held # Unset, WriteStops(Merged(disk, With(held, c)))
      PROVE  /\ disk' \in Settings \cup {Torn, Blank} /\ acked' \in {acked, Unset}
             /\ disk' # Torn /\ acked' # Unset => disk' = disk
  <2>1. PICK t \in Settings : t = Merged(disk, With(held, c))
    BY <1>a, <1>b, MergeIsSettings
  <2>2. [t EXCEPT !.allowPlain = FALSE] \in Settings
    BY DEF Settings
  <2> QED
    BY <1>b, <2>1, <2>2 DEF WriteStops, Rests
<1>2. CASE StopServer
  BY <1>2 DEF StopServer, Stopped
<1>c. ASSUME NEW c \in Changes, CrashInSave(c)
      PROVE  ConfigTypes' /\ OnDisk' /\ CachedClientIsCurrent'
  BY <1>b, <1>c DEF CrashInSave, Stopped
<1>3. ASSUME NEW s \in Settings \cup {Torn, Blank}, HandEdit(s)
      PROVE  ConfigTypes' /\ OnDisk' /\ CachedClientIsCurrent'
  BY <1>3 DEF HandEdit
<1>4. ASSUME NEW r \in Callers, NEW c \in Changes, PutConfig(r, c)
      PROVE  ConfigTypes' /\ OnDisk' /\ CachedClientIsCurrent'
  <2> DEFINE new == With(held, c)
  <2>1. /\ new \in Settings /\ new.tls = held.tls /\ new.allowPlain = held.allowPlain
        /\ new.skipVerify = c.skipVerify /\ held \in Settings /\ held' = new /\ held # Unset
    BY <1>4, <1>a DEF PutConfig
  <2> HIDE DEF new
  <2>2. CASE /\ disk' = Merged(disk, new)
             /\ acked' = IF acked = Unset THEN Unset ELSE new
             /\ AfterSave(r, c)
             /\ UNCHANGED <<client, excused>>
    <3>1. disk' \in Settings
      BY <2>1, <2>2, MergeIsSettings
    <3>2. acked # Unset => disk' = new
      <4>1. ASSUME acked # Unset
            PROVE  disk \in Settings \cup {Torn} /\ (disk # Torn => disk.allowPlain = new.allowPlain)
        BY <2>1, <2>2, <4>1
      <4> QED
        BY <2>1, <2>2, <4>1, MergeKeepsAll
    <3>3. OnDisk'
      BY <2>1, <2>2, <3>1, <3>2
    <3>4. step' \in [Callers -> Waits]
      BY <2>2 DEF AfterSave, Goes
    <3>5. CachedClientIsCurrent'
      <4>1. CASE Goes(r, "invalidate")
        BY <4>1 DEF Goes
      <4>2. CASE c.skipVerify = held.skipVerify /\ Goes(r, "idle")
        <5>1. step' = step
          BY <1>4, <4>2 DEF PutConfig, Goes
        <5> QED
          BY <2>1, <2>2, <4>2, <5>1
      <4> QED
        BY <2>2, <4>1, <4>2 DEF AfterSave
    <3> QED
      BY <2>1, <2>2, <3>1, <3>3, <3>4, <3>5
  <2>3. CASE WriteStops(Merged(disk, new)) /\ excused' = TRUE /\ UNCHANGED <<client, step>>
    <3>1. /\ disk' \in Settings \cup {Torn, Blank} /\ acked' \in {acked, Unset}
          /\ disk' # Torn /\ acked' # Unset => disk' = disk
      BY <1>b, <2>1, <2>3 DEF new
    <3> QED
      BY <2>1, <2>3, <3>1
  <2> QED
    BY <1>4, <2>2, <2>3 DEF PutConfig, new
<1>5. ASSUME NEW r \in Callers, InvalidateClient(r)
      PROVE  ConfigTypes' /\ OnDisk' /\ CachedClientIsCurrent'
  BY <1>5 DEF InvalidateClient, Goes
<1>6. ASSUME NEW r \in Callers, MissClient(r)
      PROVE  ConfigTypes' /\ OnDisk' /\ CachedClientIsCurrent'
  BY <1>6 DEF MissClient, Goes
<1>7. ASSUME NEW r \in Callers, BuildClient(r)
      PROVE  ConfigTypes' /\ OnDisk' /\ CachedClientIsCurrent'
  BY <1>7 DEF BuildClient, Goes
<1>8. ASSUME NEW r \in Callers, StoreClient(r)
      PROVE  ConfigTypes' /\ OnDisk' /\ CachedClientIsCurrent'
  BY <1>8 DEF StoreClient, Goes
<1>d. ASSUME NEW r \in Callers, RequestDropped(r)
      PROVE  ConfigTypes' /\ OnDisk' /\ CachedClientIsCurrent'
  BY <1>d DEF RequestDropped, Goes
<1>9. CASE UNCHANGED configVars
  BY <1>9 DEF configVars
<1> QED
  BY <1>1, <1>2, <1>c, <1>d, <1>3, <1>4, <1>5, <1>6, <1>7, <1>8, <1>9 DEF ConfigNext

LEMMA ConfigStarts == ConfigInit => ConfigTypes /\ OnDisk /\ CachedClientIsCurrent
BY NoSettingsAssumption DEF ConfigInit, ConfigTypes, Waits, OnDisk, CachedClientIsCurrent, Loads

(* Whatever requests, edits, restarts and failed saves come in between,    *)
(* the file holds for the next start what the last "ok" was said to, a     *)
(* change being merged into the document without losing any of its fields, *)
(* unless a write has stopped half-way and not been mended.                *)
THEOREM SettingsSurvive == ConfigSpec => []AcknowledgedSettingsSurvive
<1>1. OnDisk => AcknowledgedSettingsSurvive
  BY DEF OnDisk, AcknowledgedSettingsSurvive
<1> QED
  BY <1>1, ConfigStep, ConfigStarts, PTL DEF ConfigSpec

(* With any number of requests in flight, a client built from settings     *)
(* that are no longer in force is about to be dropped by the request that  *)
(* changed them, outside the three cases recorded in `excused'.            *)
THEOREM ClientStaysCurrent == ConfigSpec => []CachedClientIsCurrent
BY ConfigStep, ConfigStarts, PTL DEF ConfigSpec

-----------------------------------------------------------------------------
(* The servers of client.toml.                                             *)

LEMMA OneIsTakenOut ==
    ASSUME NEW T, NEW s \in Seq(T), NEW i \in 1..Len(s)
    PROVE  /\ RemoveAt(s, i) \in Seq(T) /\ Len(RemoveAt(s, i)) = Len(s) - 1
           /\ \A j \in 1..(Len(s) - 1) : RemoveAt(s, i)[j] = IF j < i THEN s[j] ELSE s[j + 1]
<1> DEFINE front == SubSeq(s, 1, i - 1)
           back == SubSeq(s, i + 1, Len(s))
<1>1. Len(s) \in Nat /\ i \in 1..Len(s)
  BY LenProperties
<1>2. front \in Seq(T) /\ Len(front) = i - 1 /\ \A j \in 1..(i - 1) : front[j] = s[j]
  BY <1>1, SubSeqProperties
<1>3. back \in Seq(T) /\ Len(back) = Len(s) - i /\ \A j \in 1..(Len(s) - i) : back[j] = s[i + j]
  BY <1>1, SubSeqProperties
<1> HIDE DEF front, back
<1>4. /\ front \o back \in Seq(T) /\ Len(front \o back) = Len(s) - 1
      /\ \A j \in 1..(Len(s) - 1) : (front \o back)[j] = IF j <= i - 1 THEN front[j] ELSE back[j - (i - 1)]
  <2>1. /\ front \o back \in Seq(T) /\ Len(front \o back) = Len(front) + Len(back)
        /\ \A j \in 1..(Len(front) + Len(back)) :
              (front \o back)[j] = IF j <= Len(front) THEN front[j] ELSE back[j - Len(front)]
    BY <1>2, <1>3, ConcatProperties
  <2>2. Len(front) + Len(back) = Len(s) - 1
    BY <1>1, <1>2, <1>3
  <2> QED
    BY <1>2, <2>1, <2>2
<1>5. ASSUME NEW j \in 1..(Len(s) - 1)
      PROVE  (front \o back)[j] = IF j < i THEN s[j] ELSE s[j + 1]
  <2>1. CASE j < i
    BY <1>1, <1>2, <1>4, <2>1
  <2>2. CASE j >= i
    <3>1. j - (i - 1) \in 1..(Len(s) - i) /\ i + (j - (i - 1)) = j + 1
      BY <1>1, <2>2
    <3>2. back[j - (i - 1)] = s[j + 1]
      BY <1>3, <3>1
    <3> QED
      BY <1>1, <1>4, <2>2, <3>2
  <2>3. j < i \/ j >= i
    BY <1>1
  <2> QED
    BY <2>1, <2>2, <2>3
<1>6. RemoveAt(s, i) = front \o back
  BY DEF RemoveAt, front, back
<1> QED
  BY <1>4, <1>5, <1>6

Servers == [name : Names, insecure : BOOLEAN]
ListsOfServers == [servers : Seq(Servers), active : Int]

(* The active server, if there is one, is a server of the list.            *)
SoundLists == {s \in ListsOfServers : s.active \in Positions(s) \cup {-1}}

LEMMA RemovalIsSound ==
    ASSUME NEW s \in ListsOfServers, NEW i \in Positions(s)
    PROVE  Removed(s, i) \in ListsOfServers /\ SameChoice(s, Removed(s, i), i)
<1> DEFINE t == Removed(s, i)
           rest == RemoveAt(s.servers, i + 1)
<1>1. PICK n \in Nat, k \in Int : n = Len(s.servers) /\ k = s.active /\ i \in 0..(n - 1)
                                 /\ s.servers \in Seq(Servers)
  BY LenProperties DEF ListsOfServers, Positions
<1>2. rest \in Seq(Servers) /\ Len(rest) = n - 1
      /\ \A j \in 1..(n - 1) : rest[j] = IF j < i + 1 THEN s.servers[j] ELSE s.servers[j + 1]
  <2>1. i + 1 \in 1..n
    BY <1>1
  <2> QED
    BY <1>1, <2>1, OneIsTakenOut
<1>3. PICK a \in Int : /\ a = ActiveAfterRemoval(s, i)
                       /\ a = CASE k = i -> (IF n = 1 THEN -1 ELSE 0) [] k > i -> k - 1 [] OTHER -> k
  BY <1>1 DEF ActiveAfterRemoval
<1>4. t = [servers |-> rest, active |-> a]
  BY <1>3 DEF Removed
<1> HIDE DEF rest, t
<1>5. t \in ListsOfServers /\ t.servers = rest /\ t.active = a
  BY <1>2, <1>4 DEF ListsOfServers
<1>6. ASSUME k \in 0..(n - 1)
      PROVE  /\ a \in 0..(n - 2) \cup {-1}
             /\ k # i => rest[a + 1] = s.servers[k + 1]
  <2>1. CASE k = i
    <3>1. a = (IF n = 1 THEN -1 ELSE 0) /\ n >= 1
      BY <1>1, <1>3, <2>1
    <3>2. CASE n = 1
      BY <2>1, <3>1, <3>2
    <3>3. CASE n # 1
      <4>3. a = 0
        BY <3>1, <3>3, Zenon
      <4>4. n \in Nat /\ n >= 1 /\ n # 1
        BY <3>1, <3>3, Zenon
      <4>1. a = 0 /\ n - 2 >= 0 /\ n - 2 \in Int
        BY <4>3, <4>4
      <4>2. a \in 0..(n - 2)
        BY <4>1
      <4> QED
        BY <2>1, <4>2
    <3> QED
      BY <2>1, <3>2, <3>3
  <2>2. CASE k > i
    <3>1. a = k - 1
      BY <1>1, <1>3, <2>2
    <3>2. a \in 0..(n - 2) /\ a + 1 \in 1..(n - 1) /\ ~(a + 1 < i + 1) /\ (a + 1) + 1 = k + 1
      BY <1>1, <1>6, <2>2, <3>1
    <3>3. rest[a + 1] = s.servers[(a + 1) + 1]
      BY <1>2, <3>2
    <3> QED
      BY <3>2, <3>3
  <2>3. CASE k < i
    <3>1. a = k
      BY <1>1, <1>3, <2>3
    <3>2. a \in 0..(n - 2) /\ a + 1 \in 1..(n - 1) /\ a + 1 < i + 1
      BY <1>1, <1>6, <2>3, <3>1
    <3>3. rest[a + 1] = s.servers[a + 1]
      BY <1>2, <3>2
    <3> QED
      BY <3>1, <3>2, <3>3
  <2> QED
    BY <1>1, <1>6, <2>1, <2>2, <2>3
<1>7. Positions(s) = 0..(n - 1) /\ Positions(t) = 0..(n - 2)
  BY <1>1, <1>2, <1>5 DEF Positions
<1> QED
  BY <1>1, <1>5, <1>6, <1>7 DEF SameChoice, At, t

(* A name in a list has a first place.                                     *)
LEMMA NameHasAPlace ==
    ASSUME NEW s \in ListsOfServers, NEW n \in NamesOf(s)
    PROVE  Position(s, n) \in Positions(s)
<1> DEFINE T == {i \in Positions(s) : At(s, i).name = n}
           R == OpToRel(<, Nat)
<1>1. PICK m \in Nat : m = Len(s.servers) /\ s.servers \in Seq(Servers) /\ DOMAIN s.servers = 1..m
  BY LenProperties DEF ListsOfServers
<1>2. T \subseteq Nat /\ Positions(s) = 0..(m - 1)
  BY <1>1 DEF Positions
<1>3. T # {}
  <2>1. PICK j \in 1..m : s.servers[j].name = n
    BY <1>1 DEF NamesOf, ToSet
  <2>2. j - 1 \in Positions(s) /\ (j - 1) + 1 = j
    BY <1>1, <1>2
  <2> QED
    BY <2>1, <2>2 DEF At
<1>4. PICK i \in T : \A j \in T : ~(<<j, i>> \in R)
  <2> HIDE DEF T, R
  <2>1. IsWellFoundedOn(R, Nat)
    BY NatLessThanWellFounded DEF R
  <2> QED
    BY <1>2, <1>3, <2>1, WFMin
<1>5. ASSUME NEW j \in 0..(i - 1) PROVE At(s, j).name # n
  <2>1. j \in Nat /\ i \in Nat /\ j < i /\ j \in Positions(s)
    BY <1>2
  <2>2. <<j, i>> \in R
    BY <2>1 DEF OpToRel
  <2> QED
    BY <1>4, <2>1, <2>2
<1>6. \E k \in Positions(s) : At(s, k).name = n /\ \A j \in 0..(k - 1) : At(s, j).name # n
  BY <1>4, <1>5
<1> QED
  BY <1>6 DEF Position

SettingsTypes ==
    /\ file \in SoundLists
    /\ memory \in SoundLists \cup {Absent}
    /\ dialog # Absent => memory \in SoundLists /\ dialog.idx \in Nat
    /\ editor \in [Editors -> SoundLists \cup {Absent}]

LEMMA ListChanges ==
    ASSUME NEW s \in ListsOfServers
    PROVE  /\ \A n \in Names : Pushed(s, n) \in ListsOfServers
           /\ \A k \in Int : [s EXCEPT !.active = k] \in ListsOfServers
           /\ \A n \in Names, i \in Nat : Renamed(s, i, n) \in ListsOfServers
           /\ AsCtlReads(s) \in ListsOfServers
<1>1. s.servers \in Seq(Servers) /\ s.active \in Int /\ Len(s.servers) \in Nat
      /\ s = [servers |-> s.servers, active |-> s.active]
  BY LenProperties DEF ListsOfServers
<1>2. ASSUME NEW n \in Names PROVE Pushed(s, n) \in ListsOfServers
  <2>1. [name |-> n, insecure |-> FALSE] \in Servers
    BY DEF Servers
  <2>2. Append(s.servers, [name |-> n, insecure |-> FALSE]) \in Seq(Servers)
    BY <1>1, <2>1, AppendProperties
  <2> QED
    BY <1>1, <2>2 DEF Pushed, ListsOfServers
<1>3. \A k \in Int : [s EXCEPT !.active = k] \in ListsOfServers
  BY <1>1 DEF ListsOfServers
<1>4. ASSUME NEW n \in Names, NEW i \in Nat PROVE Renamed(s, i, n) \in ListsOfServers
  <2>1. CASE i \in Positions(s)
    <3>1. i + 1 \in 1..Len(s.servers)
      BY <1>1, <2>1 DEF Positions
    <3>2. s.servers[i + 1] \in Servers
      BY <1>1, <3>1, ElementOfSeq
    <3>3. [s.servers[i + 1] EXCEPT !.name = n] \in Servers
      BY <3>2 DEF Servers
    <3>4. [s.servers EXCEPT ![i + 1] = [@ EXCEPT !.name = n]] \in Seq(Servers)
      BY <1>1, <3>1, <3>3, ExceptSeq
    <3> QED
      BY <1>1, <2>1, <3>4 DEF Renamed, ListsOfServers
  <2> QED
    BY <2>1 DEF Renamed
<1>5. AsCtlReads(s) \in ListsOfServers
  <2> DEFINE read == [i \in DOMAIN s.servers |-> [s.servers[i] EXCEPT !.insecure = FALSE]]
  <2>1. DOMAIN s.servers = 1..Len(s.servers)
    BY <1>1, LenProperties
  <2>2. ASSUME NEW i \in 1..Len(s.servers)
        PROVE  [s.servers[i] EXCEPT !.insecure = FALSE] \in Servers
    <3>1. s.servers[i] \in Servers
      BY <1>1, ElementOfSeq
    <3> QED
      BY <3>1 DEF Servers
  <2>3. read \in Seq(Servers)
    BY <1>1, <2>1, <2>2, IsASeq
  <2> HIDE DEF read
  <2>4. AsCtlReads(s) = [s EXCEPT !.servers = read]
    BY <1>1 DEF AsCtlReads, read
  <2> QED
    BY <1>1, <2>3, <2>4 DEF ListsOfServers
<1> QED
  BY <1>2, <1>3, <1>4, <1>5

LEMMA RemovalStaysSound ==
    ASSUME NEW s \in SoundLists, NEW i \in Positions(s)
    PROVE  Removed(s, i) \in SoundLists
<1>1. Removed(s, i) \in ListsOfServers /\ SameChoice(s, Removed(s, i), i)
  BY RemovalIsSound DEF SoundLists
<1>2. CASE s.active \in Positions(s)
  BY <1>1, <1>2 DEF SameChoice, SoundLists
<1>3. CASE s.active \notin Positions(s)
  <2>1. s.active = -1 /\ i >= 0 /\ s.active # i /\ ~(s.active > i)
    BY <1>3 DEF SoundLists, Positions
  <2>2. Removed(s, i).active = -1
    BY <2>1 DEF Removed, ActiveAfterRemoval
  <2> QED
    BY <1>1, <2>2 DEF SoundLists
<1> QED
  BY <1>2, <1>3

LEMMA ChangesStaySound ==
    ASSUME NEW s \in SoundLists
    PROVE  /\ \A n \in Names : /\ Pushed(s, n) \in SoundLists
                               /\ Positions(Pushed(s, n)) = 0..Len(s.servers)
           /\ \A k \in Positions(s) \cup {-1} : [s EXCEPT !.active = k] \in SoundLists
           /\ \A n \in Names, i \in Nat : Renamed(s, i, n) \in SoundLists
           /\ AsCtlReads(s) \in SoundLists
<1>1. /\ s \in ListsOfServers /\ s.servers \in Seq(Servers) /\ s.active \in Int
      /\ DOMAIN s.servers = 1..Len(s.servers)
      /\ s.active \in Positions(s) \cup {-1}
      /\ s = [servers |-> s.servers, active |-> s.active]
  BY LenProperties DEF SoundLists, ListsOfServers
<1> PICK m \in Nat : m = Len(s.servers)
  BY <1>1, LenProperties
<1>2. Positions(s) = 0..(m - 1)
  BY DEF Positions
<1>3. ASSUME NEW n \in Names
      PROVE  Pushed(s, n) \in SoundLists /\ Positions(Pushed(s, n)) = 0..m
  <2>1. PICK x \in Servers : x = [name |-> n, insecure |-> FALSE]
    BY DEF Servers
  <2>2. Pushed(s, n).servers = Append(s.servers, x) /\ Pushed(s, n).active = s.active
    BY <1>1, <2>1 DEF Pushed
  <2>3. Len(Pushed(s, n).servers) = m + 1
    BY <1>1, <2>2, AppendProperties
  <2>4. Positions(Pushed(s, n)) = 0..m
    BY <2>3 DEF Positions
  <2>5. Pushed(s, n) \in ListsOfServers
    BY <1>1, ListChanges
  <2> QED
    BY <1>1, <1>2, <2>2, <2>4, <2>5 DEF SoundLists
<1>4. ASSUME NEW k \in Positions(s) \cup {-1}
      PROVE  [s EXCEPT !.active = k] \in SoundLists
  <2> DEFINE t == [s EXCEPT !.active = k]
  <2>1. t \in ListsOfServers
    BY <1>1, <1>2, ListChanges
  <2>2. t.active = k /\ t.servers = s.servers
    BY <1>1
  <2> HIDE DEF t
  <2>3. Positions(t) = Positions(s)
    BY <2>2 DEF Positions
  <2>4. t \in SoundLists
    BY <2>1, <2>2, <2>3 DEF SoundLists
  <2> QED
    BY <2>4 DEF t
<1>5. ASSUME NEW n \in Names, NEW i \in Nat PROVE Renamed(s, i, n) \in SoundLists
  <2> DEFINE t == Renamed(s, i, n)
  <2>1. t \in ListsOfServers
    BY <1>1, ListChanges
  <2>2. t.active = s.active /\ DOMAIN t.servers = DOMAIN s.servers
    BY <1>1 DEF Renamed
  <2> HIDE DEF t
  <2>3. Len(t.servers) = m
    BY <1>1, <2>1, <2>2, LenProperties DEF ListsOfServers
  <2>4. Positions(t) = Positions(s)
    BY <1>2, <2>3 DEF Positions
  <2>5. t \in SoundLists
    BY <1>1, <2>1, <2>2, <2>4 DEF SoundLists
  <2> QED
    BY <2>5 DEF t
<1>6. AsCtlReads(s) \in SoundLists
  <2> DEFINE t == AsCtlReads(s)
  <2>1. t \in ListsOfServers
    BY <1>1, ListChanges
  <2>2. t.active = s.active /\ DOMAIN t.servers = DOMAIN s.servers
    BY <1>1 DEF AsCtlReads
  <2> HIDE DEF t
  <2>3. Len(t.servers) = m
    BY <1>1, <2>1, <2>2, LenProperties DEF ListsOfServers
  <2>4. Positions(t) = Positions(s)
    BY <1>2, <2>3 DEF Positions
  <2>5. t \in SoundLists
    BY <1>1, <2>1, <2>2, <2>4 DEF SoundLists
  <2> QED
    BY <2>5 DEF t
<1> QED
  BY <1>3, <1>4, <1>5, <1>6

LEMMA ClientChanges ==
    ASSUME SettingsTypes, NEW s \in SoundLists, ChangeTo(s), dialog' = Absent \/ UNCHANGED dialog
    PROVE  SettingsTypes'
BY DEF SettingsTypes, ChangeTo

LEMMA CommandWrites ==
    ASSUME SettingsTypes, NEW c \in Editors, NEW s \in SoundLists, Write(c, s)
    PROVE  SettingsTypes'
BY DEF SettingsTypes, Write

LEMMA SettingsStep ==
    ASSUME SettingsTypes, [SettingsNext]_settingsVars
    PROVE  SettingsTypes'
<1>0. /\ file \in SoundLists /\ memory \in SoundLists \cup {Absent}
      /\ \A c \in Editors : editor[c] \in SoundLists \cup {Absent}
  BY DEF SettingsTypes
<1>1. CASE LoadSettings
  BY <1>1 DEF LoadSettings, SettingsTypes
<1>2. CASE CloseClient
  BY <1>2 DEF CloseClient, SettingsTypes
<1>3. CASE Cancel
  BY <1>3 DEF Cancel, SettingsTypes
<1>4. CASE DeleteServer
  <2>1. memory \in SoundLists
    BY <1>4 DEF DeleteServer, SettingsTypes
  <2>2. CASE dialog.idx \in Positions(memory)
    <3>1. Removed(memory, dialog.idx) \in SoundLists
      BY <2>1, <2>2, RemovalStaysSound
    <3> QED
      BY <1>4, <2>2, <3>1, ClientChanges DEF DeleteServer
  <2>3. CASE dialog.idx \notin Positions(memory)
    BY <1>4, <2>3 DEF DeleteServer, SettingsTypes
  <2> QED
    BY <2>2, <2>3
<1>5. ASSUME NEW n \in Names, AddAndLogin(n) PROVE SettingsTypes'
  <2>1. memory \in SoundLists /\ Len(memory.servers) \in Nat
    BY <1>0, <1>5, LenProperties DEF AddAndLogin, SoundLists, ListsOfServers
  <2>2. [Pushed(memory, n) EXCEPT !.active = Len(memory.servers)] \in SoundLists
    <3>1. PICK s \in SoundLists, k \in Nat :
               s = Pushed(memory, n) /\ k = Len(memory.servers) /\ k \in Positions(s)
      BY <2>1, ChangesStaySound
    <3>2. [s EXCEPT !.active = k] \in SoundLists
      BY <3>1, ChangesStaySound
    <3> QED
      BY <3>1, <3>2
  <2> QED
    BY <1>5, <2>2, ClientChanges DEF AddAndLogin
<1>6. ASSUME NEW n \in Names, AddInWindow(n) PROVE SettingsTypes'
  <2>1. Pushed(memory, n) \in SoundLists
    BY <1>0, <1>6, ChangesStaySound DEF AddInWindow
  <2> QED
    BY <1>6, <2>1, ClientChanges DEF AddInWindow
<1>7. ASSUME NEW n \in Names, EditServer(n) PROVE SettingsTypes'
  <2>1. memory \in SoundLists /\ dialog.idx \in Nat
    BY <1>7 DEF EditServer, SettingsTypes
  <2>2. Renamed(memory, dialog.idx, n) \in SoundLists
    BY <2>1, ChangesStaySound
  <2> QED
    BY <1>7, <2>2, ClientChanges DEF EditServer
<1>8. ASSUME NEW i \in 0..MaxServers, SetActive(i) PROVE SettingsTypes'
  <2>1. [memory EXCEPT !.active = i] \in SoundLists
    BY <1>0, <1>8, ChangesStaySound DEF SetActive
  <2> QED
    BY <1>8, <2>1, ClientChanges DEF SetActive
<1>9. ASSUME NEW i \in 0..MaxServers, NEW what, OpenDialog(what, i) PROVE SettingsTypes'
  BY <1>9 DEF OpenDialog, SettingsTypes
<1>10. ASSUME NEW c \in Editors, ReadFile(c) PROVE SettingsTypes'
  <2>1. AsCtlReads(file) \in SoundLists
    BY <1>0, ChangesStaySound
  <2> QED
    BY <1>10, <2>1 DEF ReadFile, SettingsTypes
<1>11. ASSUME NEW c \in Editors, Bail(c) \/ RememberProfile(c) PROVE SettingsTypes'
  <2>1. PICK s \in SoundLists : Write(c, s)
    BY <1>0, <1>11 DEF Bail, RememberProfile
  <2> QED
    BY <2>1, CommandWrites
<1>12. ASSUME NEW c \in Editors, NEW n \in Names, AddServer(c, n) PROVE SettingsTypes'
  <2>1. editor[c] \in SoundLists
    BY <1>0, <1>12 DEF AddServer
  <2>2. Pushed(editor[c], n) \in SoundLists
    BY <2>1, ChangesStaySound
  <2>3. [Pushed(editor[c], n) EXCEPT !.active = 0] \in SoundLists
    <3>1. PICK s \in SoundLists : s = Pushed(editor[c], n) /\ 0 \in Positions(s)
      <4>1. Len(editor[c].servers) \in Nat
        BY <2>1, LenProperties DEF SoundLists, ListsOfServers
      <4> QED
        BY <2>1, <2>2, <4>1, ChangesStaySound
    <3>2. [s EXCEPT !.active = 0] \in SoundLists
      BY <3>1, ChangesStaySound
    <3> QED
      BY <3>1, <3>2
  <2> QED
    BY <1>12, <2>2, <2>3, CommandWrites DEF AddServer
<1>13. ASSUME NEW c \in Editors, NEW n \in Names, RemoveServer(c, n) PROVE SettingsTypes'
  <2>1. editor[c] \in SoundLists /\ n \in NamesOf(editor[c])
    BY <1>0, <1>13 DEF RemoveServer
  <2>2. Removed(editor[c], Position(editor[c], n)) \in SoundLists
    BY <2>1, NameHasAPlace, RemovalStaysSound DEF SoundLists
  <2> QED
    BY <1>13, <2>2, CommandWrites DEF RemoveServer
<1>14. ASSUME NEW c \in Editors, NEW n \in Names, SetDefault(c, n) PROVE SettingsTypes'
  <2>1. editor[c] \in SoundLists /\ n \in NamesOf(editor[c])
    BY <1>0, <1>14 DEF SetDefault
  <2>2. Position(editor[c], n) \in Positions(editor[c])
    BY <2>1, NameHasAPlace DEF SoundLists
  <2>3. [editor[c] EXCEPT !.active = Position(editor[c], n)] \in SoundLists
    BY <2>1, <2>2, ChangesStaySound
  <2> QED
    BY <1>14, <2>3, CommandWrites DEF SetDefault
<1>15. CASE UNCHANGED settingsVars
  BY <1>15 DEF settingsVars, SettingsTypes
<1> QED
  BY <1>1, <1>2, <1>3, <1>4, <1>5, <1>6, <1>7, <1>8, <1>9, <1>10, <1>11, <1>12, <1>13, <1>14,
     <1>15
  DEF SettingsNext

LEMMA SettingsStarts == SettingsInit => SettingsTypes
<1>1. NoServers \in SoundLists
  BY EmptySeq DEF NoServers, SoundLists, ListsOfServers
<1>2. ASSUME NEW n \in Names
      PROVE  [servers |-> <<[name |-> n, insecure |-> TRUE]>>, active |-> 0] \in SoundLists
  <2>1. <<[name |-> n, insecure |-> TRUE]>> \in Seq(Servers)
    BY <1>2 DEF Servers
  <2>2. Len(<<[name |-> n, insecure |-> TRUE]>>) = 1
    OBVIOUS
  <2> QED
    BY <2>1, <2>2 DEF SoundLists, ListsOfServers, Positions
<1> QED
  BY <1>1, <1>2 DEF SettingsInit, SettingsTypes

(* For any number of servers, of commands and of rows with the same name:  *)
(* whichever server is removed, by the window or by snx-edge-ctl, the      *)
(* choice of another survives it.                                          *)
THEOREM ChoiceSurvivesRemoval == SettingsSpec => RemovalKeepsChoice
<1>1. ASSUME SettingsTypes, DeleteServer, dialog.idx \in Positions(memory)
      PROVE  SameChoice(memory, memory', dialog.idx)
  <2>1. memory \in SoundLists /\ memory' = Removed(memory, dialog.idx)
    BY <1>1 DEF DeleteServer, ChangeTo, SettingsTypes
  <2> QED
    BY <1>1, <2>1, RemovalIsSound DEF SoundLists
<1>2. ASSUME SettingsTypes, NEW c \in Editors, NEW n \in Names, RemoveServer(c, n)
      PROVE  SameChoice(editor[c], file', Position(editor[c], n))
  <2>1. /\ editor[c] \in SoundLists /\ n \in NamesOf(editor[c])
        /\ file' = Removed(editor[c], Position(editor[c], n))
    BY <1>2 DEF RemoveServer, Write, SettingsTypes
  <2> QED
    BY <2>1, NameHasAPlace, RemovalIsSound DEF SoundLists
<1>3. SettingsTypes =>
         /\ DeleteServer /\ dialog.idx \in Positions(memory) =>
               SameChoice(memory, memory', dialog.idx)
         /\ \A c \in Editors, n \in Names :
               RemoveServer(c, n) => SameChoice(editor[c], file', Position(editor[c], n))
  BY <1>1, <1>2
<1> QED
  BY <1>3, SettingsStarts, SettingsStep, PTL DEF SettingsSpec, RemovalKeepsChoice

(* The active server is a server of the list it is chosen from, or none    *)
(* is, in client.toml and in every copy of it.                             *)
ActiveServerExists ==
    LET Exists(s) == s.active \in Positions(s) \cup {-1}
    IN  /\ Exists(file)
        /\ memory # Absent => Exists(memory)
        /\ \A c \in Editors : editor[c] # Absent => Exists(editor[c])

(* For any number of servers and of commands, whatever copies overwrite    *)
(* one another: the number in the file never points behind the list, even  *)
(* when a row's dialog is confirmed after other rows are gone or a command *)
(* writes back an old list (servers.rs 114-124, windows/servers.rs).       *)
THEOREM ActiveServerIsListed == SettingsSpec => []ActiveServerExists
<1>1. SettingsTypes => ActiveServerExists
  BY DEF SettingsTypes, SoundLists, ActiveServerExists
<1> QED
  BY <1>1, SettingsStarts, SettingsStep, PTL DEF SettingsSpec

-----------------------------------------------------------------------------
(* The settings window.                                                    *)

WindowTasks == [what : {"save", "delete", "new", "rename"}, profile : Ids \cup {Nobody},
                of : Ids \cup {Nobody}, here : BOOLEAN]

WindowTypes ==
    /\ table \in [Ids -> Ids \cup {Nobody, Gone}] /\ store \in [Ids -> Ids \cup {Nobody}]
    /\ ids \in Seq(Ids) /\ names \in Seq(Ids) /\ Len(names) = Len(ids)
    /\ misnamed \in BOOLEAN /\ (~misnamed => names = ids)
    /\ asking \in [what : {"file", "rename", "delete"}, of : Ids] \cup {Nobody}
    /\ form \in [of : Ids \cup {Nobody}, visible : BOOLEAN] /\ (form.visible => form.of \in Ids)
    /\ task \in [Tasks -> WindowTasks \cup {Nobody}]

(* A row is of a profile the store has, and one of them is selected.       *)
RowsHold ==
    /\ \A i \in 1..Len(ids) : store[ids[i]] \in Ids
    /\ \A p \in Ids : store[p] \in Ids => table[p] # Nobody
    /\ selected \in Places \/ (selected = -1 /\ ids = <<>>)

TasksHold ==
    \A t \in Tasks : task[t] # Nobody =>
        /\ task[t].what # "new" => task[t].profile \in Ids /\ table[task[t].profile] # Nobody
        /\ task[t].what \in {"save", "rename"} => task[t].of \in Ids

(* The profiles there are that have a row, or are to be deleted from this  *)
(* window: never more than rows, for an answer that removes a profile      *)
(* removes a row, whichever row that is.                                   *)
Removes(t, p) ==
    task[t] # Nobody /\ task[t].what = "delete" /\ task[t].here /\ task[t].profile = p
HasRow(p) == \E i \in 1..Len(ids) : ids[i] = p
Awaited == {p \in Ids : Deletable(p) /\ (HasRow(p) \/ \E t \in Tasks : Removes(t, p))}
EnoughRows == Cardinality(Awaited) <= Len(ids)

(* Unless a form was saved that was of a profile that is gone.             *)
OwnSettings ==
    "saved" \notin stale =>
        /\ \A p \in Ids : table[p] \in {p, Nobody, Gone} /\ store[p] \in {p, Nobody}
        /\ form.visible /\ "form" \notin stale => selected \in Places /\ form.of = ids[selected + 1]
        /\ \A t \in Tasks : task[t] # Nobody /\ task[t].what \in {"save", "rename"} =>
              task[t].of = task[t].profile

WindowInv == WindowTypes /\ RowsHold /\ TasksHold /\ EnoughRows /\ OwnSettings

LEMMA StoreListIsOfTheStore ==
    ASSUME store \in [Ids -> Ids \cup {Nobody}]
    PROVE  /\ StoreList \in Seq(Ids)
           /\ \A i \in 1..Len(StoreList) : store[StoreList[i]] \in Ids
<1> DEFINE S == {p \in Ids : Known(p)}
<1>1. IsFiniteSet(S)
  BY IdsAssumption, FS_Subset
<1>2. PICK n \in Nat : n = Cardinality(S) /\ ExistsBijection(1..n, S)
  BY <1>1, FS_CardinalityType
<1>3. \E f \in [1..n -> S] : IsInjective(f)
  BY <1>2 DEF ExistsBijection, Bijection, Injection
<1>4. SetToSeq(S) \in [1..n -> S]
  BY <1>2, <1>3 DEF SetToSeq
<1>5. PICK q \in [1..n -> S] : q = StoreList
  BY <1>4 DEF StoreList
<1>6. \A p \in S : p \in Ids /\ store[p] \in Ids
  BY IdsAssumption DEF Known
<1> HIDE DEF S
<1>7. q \in Seq(Ids) /\ Len(q) = n
  BY <1>5, <1>6
<1> QED
  BY <1>5, <1>6, <1>7

(* As many rows as before, or more, for the same profiles.                 *)
LEMMA FewerAwaited ==
    ASSUME EnoughRows, Awaited' \in SUBSET Awaited, Len(ids') = Len(ids), Len(ids) \in Nat
    PROVE  EnoughRows'
<1>1. IsFiniteSet(Awaited)
  BY IdsAssumption, FS_Subset DEF Awaited
<1>2. /\ Cardinality(Awaited) \in Nat /\ Cardinality(Awaited') \in Nat
      /\ Cardinality(Awaited') <= Cardinality(Awaited)
  BY <1>1, FS_Subset, FS_CardinalityType
<1> QED
  BY <1>2 DEF EnoughRows

LEMMA RowsAreEnough ==
    ASSUME NEW s \in Seq(Ids), NEW A, \A p \in A : \E i \in 1..Len(s) : s[i] = p
    PROVE  IsFiniteSet(A) /\ Cardinality(A) <= Len(s)
<1> DEFINE R == {s[i] : i \in 1..Len(s)}
           f == [i \in 1..Len(s) |-> s[i]]
<1>1. Len(s) \in Nat
  BY LenProperties
<1>2. IsFiniteSet(1..Len(s)) /\ Cardinality(1..Len(s)) = Len(s)
  BY <1>1, FS_Interval
<1>3. f \in Surjection(1..Len(s), R)
  BY DEF Surjection
<1>4. A \in SUBSET R
  OBVIOUS
<1> HIDE DEF R, f
<1>5. IsFiniteSet(R) /\ Cardinality(R) <= Len(s)
  BY <1>2, <1>3, FS_Surjection
<1>6. IsFiniteSet(A) /\ Cardinality(A) <= Cardinality(R)
  BY <1>4, <1>5, FS_Subset
<1>7. Cardinality(A) \in Nat /\ Cardinality(R) \in Nat
  BY <1>5, <1>6, FS_CardinalityType
<1> QED
  BY <1>1, <1>5, <1>6, <1>7

(* So an answer that removes a profile finds a row to remove.              *)
LEMMA ThereIsARow ==
    ASSUME WindowTypes, RowsHold, TasksHold, EnoughRows, NEW t \in Tasks,
           task[t] # Nobody, task[t].what = "delete", task[t].here, Deletable(task[t].profile)
    PROVE  selected \in Places
<1>1. task[t].profile \in Awaited
  BY DEF Awaited, Removes, TasksHold
<1>2. IsFiniteSet(Awaited)
  BY IdsAssumption, FS_Subset DEF Awaited
<1>3. Cardinality(Awaited) \in Nat /\ Cardinality(Awaited) # 0
  BY <1>1, <1>2, FS_EmptySet, FS_CardinalityType
<1>4. Len(ids) \in Nat /\ Cardinality(Awaited) <= Len(ids)
  BY LenProperties DEF WindowTypes, EnoughRows
<1>5. ids # <<>>
  BY <1>3, <1>4, EmptySeq
<1> QED
  BY <1>5 DEF RowsHold

(* The answer of a request, or its failure, changes one task.              *)
LEMMA TaskIsOver ==
    ASSUME WindowTypes, TasksHold, NEW t \in Tasks, Over(t),
           \A p \in Ids : table[p] # Nobody => table'[p] # Nobody
    PROVE  /\ task' \in [Tasks -> WindowTasks \cup {Nobody}] /\ TasksHold'
           /\ \A u \in Tasks : task'[u] \in {task[u], Nobody}
           /\ \A u \in Tasks, p \in Ids : Removes(u, p)' => Removes(u, p) /\ u # t
<1>1. task' \in [Tasks -> WindowTasks \cup {Nobody}] /\ \A u \in Tasks : task'[u] = IF u = t THEN Nobody ELSE task[u]
  BY DEF WindowTypes, Over
<1> QED
  BY <1>1 DEF TasksHold, Removes

LEMMA TaskBegins ==
    ASSUME WindowInv, NEW t \in Tasks, NEW what \in {"save", "delete", "new", "rename"},
           NEW p, NEW of,
           Begin(t, what, p, of), UNCHANGED <<table, store, ids, selected>>,
           p \in Ids \cup {Nobody}, of \in Ids \cup {Nobody},
           what # "new" => HasRow(p) /\ p \in Ids, what \in {"save", "rename"} => of \in Ids
    PROVE  /\ task' \in [Tasks -> WindowTasks \cup {Nobody}] /\ TasksHold' /\ EnoughRows'
           /\ \A u \in Tasks : task'[u] = IF u = t THEN [what |-> what, profile |-> p, of |-> of, here |-> TRUE]
                                ELSE task[u]
<1> DEFINE k == [what |-> what, profile |-> p, of |-> of, here |-> TRUE]
<1>1. k \in WindowTasks /\ k.what = what /\ k.profile = p /\ k.of = of
  BY DEF WindowTasks
<1>2. task' = [task EXCEPT ![t] = k] /\ task[t] = Nobody
  BY DEF Begin
<1> HIDE DEF k
<1>3. /\ task' \in [Tasks -> WindowTasks \cup {Nobody}]
      /\ \A u \in Tasks : task'[u] = IF u = t THEN k ELSE task[u]
  BY <1>1, <1>2 DEF WindowInv, WindowTypes
<1>4. HasRow(p) /\ p \in Ids => table[p] # Nobody
  BY DEF HasRow, WindowInv, RowsHold
<1>5. TasksHold'
  BY <1>1, <1>3, <1>4 DEF WindowInv, TasksHold
<1>6. ASSUME NEW u \in Tasks, NEW q \in Ids, Removes(u, q)' PROVE Removes(u, q) \/ HasRow(q)
  <2>1. CASE u = t
    BY <1>1, <1>3, <1>6, <2>1 DEF Removes
  <2>2. CASE u # t
    BY <1>3, <1>6, <2>2 DEF Removes
  <2> QED
    BY <2>1, <2>2
<1>7. Awaited' \in SUBSET Awaited
  BY <1>6 DEF Awaited, HasRow, Deletable
<1>8. Len(ids) \in Nat
  BY LenProperties DEF WindowInv, WindowTypes
<1>9. EnoughRows'
  BY <1>7, <1>8, FewerAwaited DEF WindowInv
<1> QED
  BY <1>3, <1>5, <1>9 DEF k

(* The form shows a row: what the store has of its profile.                *)
LEMMA ReloadShows ==
    ASSUME WindowInv, NEW k \in Places, Reload(ids, k)
    PROVE  /\ form' \in [of : Ids \cup {Nobody}, visible : BOOLEAN] /\ form'.visible
           /\ form'.of = store[ids[k + 1]] /\ form'.of \in Ids
           /\ stale' = stale \ {"form"}
<1>1. k + 1 \in 1..Len(ids) /\ k \in 0..(Len(ids) - 1)
  BY LenProperties DEF WindowInv, WindowTypes, Places
<1>2. store[ids[k + 1]] \in Ids
  BY <1>1 DEF WindowInv, RowsHold
<1>3. Known(ids[k + 1])
  BY <1>2, IdsAssumption DEF Known
<1>4. form' = [of |-> store[ids[k + 1]], visible |-> TRUE] /\ stale' = stale \ {"form"}
  BY <1>1, <1>3 DEF Reload
<1>5. form'.of = store[ids[k + 1]] /\ form'.visible
  BY <1>4
<1> QED
  BY <1>2, <1>4, <1>5

LEMMA ActiveHasRow ==
    ASSUME WindowInv, ActiveId # Nobody
    PROVE  /\ selected \in Places /\ ActiveId = ids[selected + 1] /\ ActiveId \in Ids
           /\ HasRow(ActiveId) /\ store[ActiveId] \in Ids
<1>1. selected \in Places
  BY DEF ActiveId
<1>2. selected + 1 \in 1..Len(ids)
  BY <1>1, LenProperties DEF WindowInv, WindowTypes, Places
<1>3. ids[selected + 1] \in Ids /\ store[ids[selected + 1]] \in Ids
  BY <1>2, ElementOfSeq DEF WindowInv, WindowTypes, RowsHold
<1> QED
  BY <1>1, <1>2, <1>3 DEF ActiveId, HasRow

LEMMA UserKeeps ==
    ASSUME WindowInv,
           \/ \E k \in 0..Len(ids) : Select(k)
           \/ \E admin \in BOOLEAN : RoleKnown(admin)
           \/ \E what \in {"file", "rename", "delete"} : Ask(what)
           \/ Edit \/ LeaveDialog \/ PickFile
    PROVE  WindowInv'
<1>1. ASSUME NEW k \in 0..Len(ids), Select(k) PROVE WindowInv'
  <2>1. /\ k \in Places /\ selected' = k /\ UNCHANGED <<table, store, names, ids, task, asking, misnamed>>
        /\ form' \in [of : Ids \cup {Nobody}, visible : BOOLEAN] /\ form'.visible
        /\ form'.of = store[ids[k + 1]] /\ form'.of \in Ids
        /\ stale' = stale \ {"form"}
    BY <1>1, ReloadShows DEF Select
  <2>2. k + 1 \in 1..Len(ids) /\ ids[k + 1] \in Ids
    BY <2>1, LenProperties, ElementOfSeq DEF WindowInv, WindowTypes, Places
  <2>3. WindowTypes'
    BY <2>1 DEF WindowInv, WindowTypes
  <2>4. RowsHold' /\ TasksHold' /\ EnoughRows'
    BY <2>1 DEF WindowInv, RowsHold, TasksHold, EnoughRows, Awaited, HasRow, Removes, Deletable,
       Places
  <2>5. OwnSettings'
    BY <2>1, <2>2, IdsAssumption DEF WindowInv, OwnSettings, Places
  <2> QED
    BY <2>3, <2>4, <2>5 DEF WindowInv
<1>2. ASSUME UNCHANGED <<table, store, names, ids, selected, task, misnamed>>,
             /\ form' \in [of : Ids \cup {Nobody}, visible : BOOLEAN]
             /\ form'.visible => form'.of \in Ids,
             asking' \in [what : {"file", "rename", "delete"}, of : Ids] \cup {Nobody},
             UNCHANGED <<form, stale>> \/ ("form" \in stale' /\ ("saved" \in stale' <=> "saved" \in stale))
      PROVE  WindowInv'
  BY <1>2 DEF WindowInv, WindowTypes, RowsHold, TasksHold, EnoughRows, OwnSettings, Awaited,
     HasRow, Removes, Deletable, Places
<1>3. ASSUME Edit \/ (\E admin \in BOOLEAN : RoleKnown(admin)) \/ LeaveDialog PROVE WindowInv'
  BY <1>2, <1>3 DEF Edit, RoleKnown, LeaveDialog, WindowInv, WindowTypes
<1>4. ASSUME NEW what \in {"file", "rename", "delete"}, Ask(what) PROVE WindowInv'
  <2>1. form.of \in Ids /\ ActiveId \in Ids
    BY <1>4, ActiveHasRow DEF Ask, WindowInv, WindowTypes
  <2> QED
    BY <1>2, <1>4, <2>1 DEF Ask, WindowInv, WindowTypes
<1>5. ASSUME PickFile PROVE WindowInv'
  <2>1. /\ asking' = Nobody /\ asking.of \in Ids /\ form \in [of : Ids \cup {Nobody}, visible : BOOLEAN]
        /\ form' = [form EXCEPT !.of = asking.of]
        /\ stale' = IF form.of = asking.of THEN stale ELSE stale \cup {"form"}
    BY <1>5 DEF PickFile, Asked, WindowInv, WindowTypes
  <2>2. form' \in [of : Ids \cup {Nobody}, visible : BOOLEAN] /\ form'.of \in Ids
    BY <2>1
  <2>3. UNCHANGED <<form, stale>> \/ ("form" \in stale' /\ ("saved" \in stale' <=> "saved" \in stale))
    BY <2>1
  <2> QED
    BY <1>2, <1>5, <2>1, <2>2, <2>3 DEF PickFile
<1> QED
  BY <1>1, <1>3, <1>4, <1>5

LEMMA ReopenKeeps ==
    ASSUME WindowInv, Reopen
    PROVE  WindowInv'
<1>1. PICK q \in Seq(Ids) : q = StoreList /\ \A i \in 1..Len(q) : store[q[i]] \in Ids
  BY StoreListIsOfTheStore DEF WindowInv, WindowTypes
<1>2. /\ names' = q /\ ids' = q /\ UNCHANGED <<table, store, asking, misnamed>>
      /\ stale' = stale \ {"form"}
      /\ selected' = FirstOf(q) /\ form' = FirstForm(q) /\ Len(q) \in Nat
  BY <1>1, LenProperties DEF Reopen
<1>3. 1 \in 1..Len(q) \/ q = <<>>
  BY <1>1, <1>2, EmptySeq
<1>4. /\ (selected' = 0 /\ 1 \in 1..Len(q)) \/ (selected' = -1 /\ q = <<>>)
      /\ form' \in [of : Ids \cup {Nobody}, visible : BOOLEAN]
      /\ form'.visible => form'.of = store[q[1]] /\ form'.of \in Ids /\ selected' = 0 /\ 1 \in 1..Len(q)
  <2>1. CASE q = <<>>
    <3>1. selected' = -1 /\ form' = [of |-> Nobody, visible |-> FALSE]
      BY <1>2, <2>1 DEF FirstOf, FirstForm
    <3> QED
      BY <2>1, <3>1
  <2>2. CASE q # <<>>
    <3>1. selected' = 0 /\ form' = [of |-> store[q[1]], visible |-> TRUE]
      BY <1>2, <2>2 DEF FirstOf, FirstForm
    <3>2. 1 \in 1..Len(q) /\ store[q[1]] \in Ids
      BY <1>1, <1>3, <2>2
    <3> QED
      BY <3>1, <3>2
  <2> QED
    BY <2>1, <2>2
<1>5. /\ task' \in [Tasks -> WindowTasks \cup {Nobody}]
      /\ \A u \in Tasks : task'[u] # Nobody =>
            /\ task[u] # Nobody /\ ~task'[u].here
            /\ task'[u].what = task[u].what /\ task'[u].profile = task[u].profile /\ task'[u].of = task[u].of
  <2>1. ASSUME NEW u \in Tasks, task[u] # Nobody
        PROVE  /\ [task[u] EXCEPT !.here = FALSE] \in WindowTasks
               /\ LET k == [task[u] EXCEPT !.here = FALSE]
                  IN  ~k.here /\ k.what = task[u].what /\ k.profile = task[u].profile /\ k.of = task[u].of
    <3>1. task[u] \in WindowTasks
      BY <2>1 DEF WindowInv, WindowTypes
    <3> QED
      BY <3>1 DEF WindowTasks
  <2>2. task' = [u \in Tasks |-> IF task[u] = Nobody THEN Nobody ELSE [task[u] EXCEPT !.here = FALSE]]
    BY DEF Reopen
  <2> QED
    BY <2>1, <2>2
<1>6. WindowTypes'
  BY <1>1, <1>2, <1>4, <1>5 DEF WindowInv, WindowTypes
<1>7. RowsHold'
  BY <1>1, <1>2, <1>4 DEF WindowInv, RowsHold, Places
<1>8. TasksHold'
  BY <1>2, <1>5 DEF WindowInv, TasksHold
<1>9. EnoughRows'
  <2>1. PICK A : A = Awaited'
    OBVIOUS
  <2>2. \A p \in A : \E j \in 1..Len(q) : q[j] = p
    BY <1>2, <1>5, <2>1 DEF Awaited, HasRow, Removes
  <2>3. Cardinality(A) <= Len(q)
    BY <2>2, RowsAreEnough
  <2> QED
    BY <1>2, <2>1, <2>3 DEF EnoughRows
<1>10. OwnSettings'
  <2>1. 1 \in 1..Len(q) => q[1] \in Ids
    BY <1>1, ElementOfSeq
  <2>2. selected' = 0 /\ 1 \in 1..Len(q) => Places' = 0..(Len(q) - 1) /\ selected' \in Places' /\ ids'[selected' + 1] = q[1]
    BY <1>2 DEF Places
  <2>3. ASSUME "saved" \notin stale', form'.visible
        PROVE  selected' \in Places' /\ form'.of = ids'[selected' + 1]
    BY <1>2, <1>4, <2>1, <2>2, <2>3, IdsAssumption DEF WindowInv, OwnSettings
  <2>4. ASSUME "saved" \notin stale'
        PROVE  \A p \in Ids : table'[p] \in {p, Nobody, Gone} /\ store'[p] \in {p, Nobody}
    BY <1>2, <2>4 DEF WindowInv, OwnSettings
  <2>5. ASSUME "saved" \notin stale',
               NEW t \in Tasks, task'[t] # Nobody, task'[t].what \in {"save", "rename"}
        PROVE  task'[t].of = task'[t].profile
    BY <1>2, <1>5, <2>5 DEF WindowInv, OwnSettings
  <2> QED
    BY <2>3, <2>4, <2>5 DEF OwnSettings
<1> QED
  BY <1>6, <1>7, <1>8, <1>9, <1>10 DEF WindowInv

(* A request is sent.                                                      *)
LEMMA RequestKeeps ==
    ASSUME WindowInv,
           NEW t \in Tasks, ClickSave(t) \/ ConfirmDelete(t) \/ AskNew(t) \/ RenameRow(t)
    PROVE  WindowInv'
<1>1. /\ UNCHANGED <<table, store, ids, selected>> /\ asking' \in {asking, Nobody}
      /\ RenameRow(t) \/ UNCHANGED <<names, misnamed>>
  BY DEF ClickSave, ConfirmDelete, AskNew, RenameRow, KeepForm, Reload, Asked
<1>a. names' \in Seq(Ids) /\ Len(names') = Len(ids') /\ misnamed' \in BOOLEAN /\ (~misnamed' => names' = ids')
  <2>1. CASE UNCHANGED <<names, misnamed>>
    BY <1>1, <2>1 DEF WindowInv, WindowTypes
  <2>2. CASE RenameRow(t)
    <3>1. /\ names' = [names EXCEPT ![selected + 1] = asking.of] /\ asking.of \in Ids
          /\ misnamed' = (misnamed \/ asking.of # ActiveId) /\ ActiveId # Nobody
      BY <2>2 DEF RenameRow, Asked, WindowInv, WindowTypes
    <3>2. /\ names \in Seq(Ids) /\ Len(names) = Len(ids) /\ Len(names) \in Nat
          /\ selected + 1 \in 1..Len(names)
      BY <3>1, ActiveHasRow, LenProperties DEF WindowInv, WindowTypes, Places
    <3>4. names' \in Seq(Ids) /\ Len(names') = Len(names)
      BY <3>1, <3>2, ExceptSeq
    <3>3. ASSUME ~misnamed' PROVE names' = ids
      <4>1. asking.of = ids[selected + 1] /\ names = ids
        BY <3>1, <3>3, ActiveHasRow DEF WindowInv, WindowTypes
      <4> QED
        BY <3>1, <4>1 DEF WindowInv, WindowTypes
    <3> QED
      BY <1>1, <3>1, <3>2, <3>3, <3>4 DEF WindowInv, WindowTypes
  <2> QED
    BY <1>1, <2>1, <2>2
<1>2. RowsHold'
  BY <1>1 DEF WindowInv, RowsHold, Places
<1>3. CASE ClickSave(t)
  <2>1. /\ ActiveId # Nobody /\ form.visible /\ Begin(t, "save", ActiveId, form.of) /\ UNCHANGED form
        /\ form.of \in Ids
        /\ stale' = IF "form" \in stale THEN stale \cup {"saved"} ELSE stale
    BY <1>3 DEF ClickSave, WindowInv, WindowTypes
  <2>2. /\ task' \in [Tasks -> WindowTasks \cup {Nobody}] /\ TasksHold' /\ EnoughRows'
        /\ \A u \in Tasks : task'[u] = IF u = t THEN [what |-> "save", profile |-> ActiveId, of |-> form.of, here |-> TRUE]
                             ELSE task[u]
    BY <1>1, <2>1, ActiveHasRow, TaskBegins
  <2>3. WindowTypes'
    BY <1>1, <1>a, <2>1, <2>2 DEF WindowInv, WindowTypes
  <2>4. OwnSettings'
    <3>1. ASSUME "saved" \notin stale'
          PROVE  "saved" \notin stale /\ "form" \notin stale /\ stale' = stale
      BY <2>1, <3>1
    <3>2. ASSUME "saved" \notin stale' PROVE form.of = ActiveId
      BY <2>1, <3>1, <3>2, ActiveHasRow DEF WindowInv, OwnSettings
    <3>3. ASSUME "saved" \notin stale',
                 NEW u \in Tasks, task'[u] # Nobody, task'[u].what \in {"save", "rename"}
          PROVE  task'[u].of = task'[u].profile
      BY <2>2, <3>1, <3>2, <3>3 DEF WindowInv, OwnSettings
    <3>4. Places' = Places
      BY <1>1 DEF Places
    <3> QED
      BY <1>1, <2>1, <3>1, <3>3, <3>4 DEF WindowInv, OwnSettings
  <2> QED
    BY <1>2, <2>2, <2>3, <2>4 DEF WindowInv
<1>4. CASE ConfirmDelete(t)
  <2>1. ActiveId # Nobody /\ Begin(t, "delete", ActiveId, Nobody) /\ UNCHANGED <<form, stale>>
    BY <1>4 DEF ConfirmDelete, KeepForm
  <2>2. /\ task' \in [Tasks -> WindowTasks \cup {Nobody}] /\ TasksHold' /\ EnoughRows'
        /\ \A u \in Tasks : task'[u] = IF u = t THEN [what |-> "delete", profile |-> ActiveId, of |-> Nobody, here |-> TRUE]
                             ELSE task[u]
    BY <1>1, <2>1, ActiveHasRow, TaskBegins
  <2>3. WindowTypes'
    BY <1>1, <1>a, <2>1, <2>2 DEF WindowInv, WindowTypes
  <2>4. OwnSettings'
    <3>1. \A u \in Tasks : task'[u] # Nobody /\ task'[u].what \in {"save", "rename"} => task'[u] = task[u]
      BY <2>2
    <3> QED
      BY <1>1, <2>1, <3>1 DEF WindowInv, OwnSettings, Places
  <2> QED
    BY <1>2, <2>2, <2>3, <2>4 DEF WindowInv
<1>5. CASE AskNew(t)
  <2>1. Begin(t, "new", Nobody, Nobody) /\ UNCHANGED <<form, stale>>
    BY <1>5 DEF AskNew, KeepForm
  <2>2. /\ task' \in [Tasks -> WindowTasks \cup {Nobody}] /\ TasksHold' /\ EnoughRows'
        /\ \A u \in Tasks : task'[u] = IF u = t THEN [what |-> "new", profile |-> Nobody, of |-> Nobody, here |-> TRUE]
                             ELSE task[u]
    BY <1>1, <2>1, TaskBegins
  <2>3. WindowTypes'
    BY <1>1, <1>a, <2>1, <2>2 DEF WindowInv, WindowTypes
  <2>4. OwnSettings'
    <3>1. \A u \in Tasks : task'[u] # Nobody /\ task'[u].what \in {"save", "rename"} => task'[u] = task[u]
      BY <2>2
    <3> QED
      BY <1>1, <2>1, <3>1 DEF WindowInv, OwnSettings, Places
  <2> QED
    BY <1>2, <2>2, <2>3, <2>4 DEF WindowInv
<1>6. CASE RenameRow(t)
  <2>0. /\ ActiveId # Nobody /\ selected \in Places /\ ActiveId = ids[selected + 1] /\ ActiveId \in Ids
        /\ HasRow(ActiveId) /\ store[ActiveId] \in Ids
    BY <1>6, ActiveHasRow DEF RenameRow
  <2>1. Begin(t, "rename", ActiveId, store[ActiveId])
    BY <1>6, <2>0, IdsAssumption DEF RenameRow, Known
  <2>2. /\ task' \in [Tasks -> WindowTasks \cup {Nobody}] /\ TasksHold' /\ EnoughRows'
        /\ \A u \in Tasks : task'[u] =
              IF u = t THEN [what |-> "rename", profile |-> ActiveId, of |-> store[ActiveId], here |-> TRUE]
              ELSE task[u]
    BY <1>1, <2>0, <2>1, TaskBegins
  <2>3. \/ UNCHANGED <<form, stale>>
        \/ /\ form' \in [of : Ids \cup {Nobody}, visible : BOOLEAN] /\ form'.visible
           /\ form'.of = store[ActiveId] /\ form'.of \in Ids /\ stale' = stale \ {"form"}
    BY <1>6, <2>0, ReloadShows DEF RenameRow, KeepForm
  <2>4. WindowTypes'
    BY <1>1, <1>a, <2>2, <2>3 DEF WindowInv, WindowTypes
  <2>5. OwnSettings'
    <3>1. ASSUME "saved" \notin stale' PROVE "saved" \notin stale /\ store[ActiveId] = ActiveId
      BY <2>0, <2>3, <3>1, IdsAssumption DEF WindowInv, OwnSettings
    <3>2. ASSUME "saved" \notin stale',
                 NEW u \in Tasks, task'[u] # Nobody, task'[u].what \in {"save", "rename"}
          PROVE  task'[u].of = task'[u].profile
      BY <2>2, <3>1, <3>2 DEF WindowInv, OwnSettings
    <3>3. ASSUME "saved" \notin stale', form'.visible, "form" \notin stale'
          PROVE  selected \in Places /\ form'.of = ids[selected + 1]
      BY <2>0, <2>3, <3>1, <3>3 DEF WindowInv, OwnSettings
    <3>4. Places' = Places
      BY <1>1 DEF Places
    <3> QED
      BY <1>1, <3>1, <3>2, <3>3, <3>4 DEF WindowInv, OwnSettings
  <2> QED
    BY <1>2, <2>2, <2>4, <2>5 DEF WindowInv
<1> QED
  BY <1>3, <1>4, <1>5, <1>6

LEMMA OverKeeps ==
    ASSUME WindowInv, NEW t \in Tasks, Over(t), UNCHANGED <<names, ids, selected, form, stale, asking, misnamed>>,
           table' \in [Ids -> Ids \cup {Nobody, Gone}], store' \in [Ids -> Ids \cup {Nobody}],
           \A p \in Ids : /\ table[p] \in Ids <=> table'[p] \in Ids
                          /\ table[p] = Nobody <=> table'[p] = Nobody
                          /\ store[p] \in Ids <=> store'[p] \in Ids,
           "saved" \notin stale => \A p \in Ids : table'[p] \in {p, Nobody, Gone} /\ store'[p] \in {p, Nobody}
    PROVE  WindowInv'
<1>1. /\ task' \in [Tasks -> WindowTasks \cup {Nobody}] /\ TasksHold'
      /\ \A u \in Tasks : task'[u] \in {task[u], Nobody}
      /\ \A u \in Tasks, p \in Ids : Removes(u, p)' => Removes(u, p)
  BY TaskIsOver DEF WindowInv
<1>2. WindowTypes'
  BY <1>1 DEF WindowInv, WindowTypes
<1>3. RowsHold'
  <2>1. \A i \in 1..Len(ids) : ids[i] \in Ids
    BY ElementOfSeq DEF WindowInv, WindowTypes
  <2> QED
    BY <2>1 DEF WindowInv, RowsHold, Places
<1>4. EnoughRows'
  <2>1. Awaited' \in SUBSET Awaited
    BY <1>1 DEF Awaited, HasRow, Deletable
  <2>2. Len(ids) \in Nat
    BY LenProperties DEF WindowInv, WindowTypes
  <2> QED
    BY <2>1, <2>2, FewerAwaited DEF WindowInv
<1>5. OwnSettings'
  BY <1>1 DEF WindowInv, OwnSettings, Places
<1> QED
  BY <1>1, <1>2, <1>3, <1>4, <1>5 DEF WindowInv

LEMMA AnswerKeeps ==
    ASSUME WindowInv, NEW t \in Tasks, Saved(t) \/ RowRenamed(t) \/ Fails(t)
    PROVE  WindowInv'
<1>1. /\ table \in [Ids -> Ids \cup {Nobody, Gone}] /\ store \in [Ids -> Ids \cup {Nobody}]
      /\ Over(t) /\ UNCHANGED <<names, ids, selected, form, stale, asking, misnamed>> /\ task[t] # Nobody
  BY DEF Saved, RowRenamed, Fails, KeepForm, WindowInv, WindowTypes
<1>2. CASE Fails(t)
  <2>1. UNCHANGED <<table, store>>
    BY <1>2 DEF Fails
  <2>2. "saved" \notin stale => \A p \in Ids : table'[p] \in {p, Nobody, Gone} /\ store'[p] \in {p, Nobody}
    BY <2>1 DEF WindowInv, OwnSettings
  <2> QED
    BY <1>1, <2>1, <2>2, OverKeeps
<1>3. ASSUME task[t].what \in {"save", "rename"}
      PROVE  /\ task[t].profile \in Ids /\ task[t].of \in Ids
             /\ "saved" \notin stale => task[t].of = task[t].profile
  BY <1>1, <1>3 DEF WindowInv, TasksHold, OwnSettings
<1>4. CASE RowRenamed(t)
  <2>1. PICK p \in Ids, of \in Ids : /\ table' = [table EXCEPT ![p] = of] /\ UNCHANGED store /\ table[p] \in Ids
                                     /\ "saved" \notin stale => of = p
    BY <1>3, <1>4 DEF RowRenamed
  <2>2. /\ table' \in [Ids -> Ids \cup {Nobody, Gone}]
        /\ \A q \in Ids : /\ table[q] \in Ids <=> table'[q] \in Ids
                          /\ table[q] = Nobody <=> table'[q] = Nobody
    BY <1>1, <2>1, IdsAssumption
  <2>3. "saved" \notin stale => \A q \in Ids : table'[q] \in {q, Nobody, Gone} /\ store'[q] \in {q, Nobody}
    BY <1>1, <2>1 DEF WindowInv, OwnSettings
  <2> QED
    BY <1>1, <2>1, <2>2, <2>3, OverKeeps
<1>5. CASE Saved(t)
  <2>1. PICK p \in Ids, of \in Ids :
           /\ table' = [table EXCEPT ![p] = of] /\ table[p] \in Ids
           /\ store' = [q \in Ids |-> IF q = p /\ Known(q) THEN of ELSE store[q]]
           /\ "saved" \notin stale => of = p
    BY <1>3, <1>5 DEF Saved, SavedId
  <2>2. /\ table' \in [Ids -> Ids \cup {Nobody, Gone}] /\ store' \in [Ids -> Ids \cup {Nobody}]
        /\ \A q \in Ids : /\ table[q] \in Ids <=> table'[q] \in Ids
                          /\ table[q] = Nobody <=> table'[q] = Nobody
                          /\ store[q] \in Ids <=> store'[q] \in Ids
    BY <1>1, <2>1, IdsAssumption DEF Known
  <2>3. "saved" \notin stale => \A q \in Ids : table'[q] \in {q, Nobody, Gone} /\ store'[q] \in {q, Nobody}
    BY <1>1, <2>1 DEF WindowInv, OwnSettings
  <2> QED
    BY <1>1, <2>2, <2>3, OverKeeps
<1> QED
  BY <1>2, <1>4, <1>5

LEMMA CreatedKeeps ==
    ASSUME WindowInv, NEW t \in Tasks, NEW p \in Ids, Created(t, p)
    PROVE  WindowInv'
<1>1. /\ table \in [Ids -> Ids \cup {Nobody, Gone}] /\ store \in [Ids -> Ids \cup {Nobody}]
      /\ ids \in Seq(Ids) /\ Len(ids) \in Nat
      /\ names \in Seq(Ids) /\ Len(names) = Len(ids) /\ (~misnamed => names = ids)
  BY LenProperties DEF WindowInv, WindowTypes
<1>2. /\ table[p] = Nobody /\ table' = [table EXCEPT ![p] = p] /\ store' = [store EXCEPT ![p] = p]
      /\ Over(t) /\ task[t] # Nobody /\ task[t].what = "new" /\ UNCHANGED <<asking, misnamed>>
  BY DEF Created
<1>3. /\ table' \in [Ids -> Ids \cup {Nobody, Gone}] /\ store' \in [Ids -> Ids \cup {Nobody}]
      /\ \A q \in Ids : /\ table'[q] = IF q = p THEN p ELSE table[q]
                        /\ store'[q] = IF q = p THEN p ELSE store[q]
  BY <1>1, <1>2
<1>4. /\ task' \in [Tasks -> WindowTasks \cup {Nobody}] /\ TasksHold'
      /\ \A u \in Tasks : task'[u] \in {task[u], Nobody}
      /\ \A u \in Tasks, q \in Ids : Removes(u, q)' => Removes(u, q)
  BY <1>2, <1>3, TaskIsOver, IdsAssumption DEF WindowInv
<1>5. ASSUME NEW u \in Tasks, Removes(u, p)' PROVE FALSE
  BY <1>2, <1>4, <1>5 DEF Removes, WindowInv, TasksHold
<1>6. ~HasRow(p)
  BY <1>2 DEF HasRow, WindowInv, RowsHold
<1>a. IsFiniteSet(Awaited) /\ Cardinality(Awaited) \in Nat /\ Cardinality(Awaited) <= Len(ids)
  BY IdsAssumption, FS_Subset, FS_CardinalityType DEF Awaited, WindowInv, EnoughRows
<1>b. "saved" \notin stale => \A q \in Ids : table'[q] \in {q, Nobody, Gone} /\ store'[q] \in {q, Nobody}
  BY <1>3 DEF WindowInv, OwnSettings
<1>c. ASSUME "saved" \notin stale,
             NEW u \in Tasks, task'[u] # Nobody, task'[u].what \in {"save", "rename"}
      PROVE  task'[u].of = task'[u].profile
  BY <1>4, <1>c DEF WindowInv, OwnSettings
<1>7. CASE ~task[t].here
  <2>1. UNCHANGED <<names, ids, selected, form, dirty, stale>>
    BY <1>7 DEF Created, KeepForm
  <2>2. WindowTypes'
    BY <1>2, <1>3, <1>4, <2>1 DEF WindowInv, WindowTypes
  <2>3. RowsHold'
    <3>1. \A i \in 1..Len(ids) : store[ids[i]] \in Ids /\ ids[i] \in Ids
      BY <1>1, ElementOfSeq DEF WindowInv, RowsHold
    <3>2. \A i \in 1..Len(ids) : store'[ids[i]] \in Ids
      BY <1>3, <3>1
    <3>3. \A q \in Ids : store'[q] \in Ids => table'[q] # Nobody
      BY <1>3, IdsAssumption DEF WindowInv, RowsHold
    <3> QED
      BY <2>1, <3>2, <3>3 DEF WindowInv, RowsHold, Places
  <2>4. Awaited' \in SUBSET Awaited
    BY <1>3, <1>4, <1>5, <1>6, <2>1 DEF Awaited, HasRow, Deletable
  <2>5. EnoughRows'
    BY <1>1, <2>1, <2>4, FewerAwaited DEF WindowInv
  <2>6. OwnSettings'
    BY <1>b, <1>c, <2>1 DEF WindowInv, OwnSettings, Places
  <2> QED
    BY <1>4, <2>2, <2>3, <2>5, <2>6 DEF WindowInv
<1>8. CASE task[t].here
  <2>1. /\ names' = Append(names, p) /\ ids' = Append(ids, p) /\ selected' = Len(ids)
        /\ IF ids = <<>> THEN form' = [form EXCEPT !.visible = FALSE] /\ UNCHANGED <<dirty, stale>>
           ELSE form' = [of |-> p, visible |-> TRUE] /\ stale' = stale \ {"form"}
    BY <1>1, <1>8 DEF Created
  <2>2. /\ ids' \in Seq(Ids) /\ Len(ids') = Len(ids) + 1 /\ ids'[Len(ids) + 1] = p
        /\ \A i \in 1..Len(ids) : ids'[i] = ids[i]
        /\ names' \in Seq(Ids) /\ Len(names') = Len(names) + 1
        /\ names = ids => names' = ids'
    BY <1>1, <2>1, AppendProperties
  <2>3. form \in [of : Ids \cup {Nobody}, visible : BOOLEAN]
    BY DEF WindowInv, WindowTypes
  <2>4. /\ form' \in [of : Ids \cup {Nobody}, visible : BOOLEAN]
        /\ form'.visible => form'.of = p
        /\ "saved" \in stale <=> "saved" \in stale'
    <3>1. CASE ids = <<>>
      BY <2>1, <2>3, <3>1
    <3>2. CASE ids # <<>>
      <4>1. form' = [of |-> p, visible |-> TRUE] /\ stale' = stale \ {"form"}
        BY <2>1, <3>2
      <4>2. form' \in [of : Ids \cup {Nobody}, visible : BOOLEAN] /\ form'.of = p
        BY <4>1
      <4> QED
        BY <4>1, <4>2
    <3> QED
      BY <3>1, <3>2
  <2>5. WindowTypes'
    BY <1>1, <1>2, <1>3, <1>4, <2>1, <2>2, <2>4 DEF WindowInv, WindowTypes
  <2>6. RowsHold'
    <3>1. \A i \in 1..Len(ids') : ids'[i] = IF i = Len(ids) + 1 THEN p ELSE ids[i]
      BY <1>1, <2>2
    <3>2. \A i \in 1..Len(ids) : store[ids[i]] \in Ids /\ ids[i] \in Ids
      BY <1>1, ElementOfSeq DEF WindowInv, RowsHold
    <3>6. Len(ids) \in Nat /\ Len(ids') = Len(ids) + 1
      BY <1>1, <2>2
    <3>3. \A i \in 1..Len(ids') : store'[ids'[i]] \in Ids
      BY <1>3, <3>1, <3>2, <3>6
    <3>4. \A q \in Ids : store'[q] \in Ids => table'[q] # Nobody
      BY <1>3, IdsAssumption DEF WindowInv, RowsHold
    <3>5. selected' \in Places'
      BY <1>1, <2>1, <2>2 DEF Places
    <3> QED
      BY <3>3, <3>4, <3>5 DEF RowsHold
  <2>7. EnoughRows'
    <3>1. Awaited' \in SUBSET (Awaited \cup {p})
      <4>1. ASSUME NEW q \in Ids, HasRow(q)' PROVE HasRow(q) \/ q = p
        BY <1>1, <2>2, <4>1 DEF HasRow
      <4> QED
        BY <1>3, <1>4, <4>1 DEF Awaited, Deletable
    <3>2. /\ IsFiniteSet(Awaited \cup {p}) /\ Cardinality(Awaited \cup {p}) <= Cardinality(Awaited) + 1
          /\ Cardinality(Awaited \cup {p}) \in Nat
      <4>1. PICK A : A = Awaited
        OBVIOUS
      <4>2. /\ IsFiniteSet(A \cup {p}) /\ Cardinality(A \cup {p}) \in Nat
            /\ Cardinality(A \cup {p}) = IF p \in A THEN Cardinality(A) ELSE Cardinality(A) + 1
        BY <1>a, <4>1, FS_AddElement, FS_CardinalityType
      <4> QED
        BY <1>a, <4>1, <4>2
    <3>3. Cardinality(Awaited') <= Cardinality(Awaited \cup {p}) /\ Cardinality(Awaited') \in Nat
      BY <3>1, <3>2, FS_Subset, FS_CardinalityType
    <3> QED
      BY <1>1, <1>a, <2>2, <3>2, <3>3 DEF EnoughRows
  <2>8. OwnSettings'
    <3>1. selected' \in Places' /\ ids'[selected' + 1] = p
      BY <1>1, <2>1, <2>2 DEF Places
    <3> QED
      BY <1>b, <1>c, <2>4, <3>1 DEF OwnSettings
  <2> QED
    BY <1>4, <2>5, <2>6, <2>7, <2>8 DEF WindowInv
<1> QED
  BY <1>7, <1>8

LEMMA OneOrMore ==
    ASSUME NEW n \in Nat
    PROVE  /\ n > 1 => n # 1
           /\ n # 0 => n = 1 \/ n > 1
OBVIOUS

LEMMA RowDeletedKeeps ==
    ASSUME WindowInv, NEW t \in Tasks, RowDeleted(t)
    PROVE  WindowInv'
<1>1. /\ table \in [Ids -> Ids \cup {Nobody, Gone}] /\ store \in [Ids -> Ids \cup {Nobody}]
      /\ ids \in Seq(Ids) /\ Len(ids) \in Nat
      /\ names \in Seq(Ids) /\ Len(names) = Len(ids) /\ (~misnamed => names = ids)
      /\ form \in [of : Ids \cup {Nobody}, visible : BOOLEAN]
  BY LenProperties DEF WindowInv, WindowTypes
<1>0. Len(ids) \in Nat
  BY <1>1
<1>2. PICK p \in Ids : /\ p = task[t].profile /\ Deletable(p) /\ table' = [table EXCEPT ![p] = Gone]
  BY DEF RowDeleted, WindowInv, TasksHold
<1>3. Over(t) /\ task[t] # Nobody /\ task[t].what = "delete" /\ UNCHANGED <<store, asking, misnamed>>
  BY DEF RowDeleted
<1>4. /\ table' \in [Ids -> Ids \cup {Nobody, Gone}]
      /\ \A q \in Ids : table'[q] = IF q = p THEN Gone ELSE table[q]
  BY <1>1, <1>2
<1>5. /\ task' \in [Tasks -> WindowTasks \cup {Nobody}] /\ TasksHold'
      /\ \A u \in Tasks : task'[u] \in {task[u], Nobody}
      /\ \A u \in Tasks, q \in Ids : Removes(u, q)' => Removes(u, q)
  BY <1>3, <1>4, TaskIsOver, IdsAssumption DEF WindowInv
<1>6. "saved" \notin stale => \A q \in Ids : table'[q] \in {q, Nobody, Gone} /\ store'[q] \in {q, Nobody}
  BY <1>3, <1>4 DEF WindowInv, OwnSettings
<1>7. ASSUME "saved" \notin stale,
             NEW u \in Tasks, task'[u] # Nobody, task'[u].what \in {"save", "rename"}
      PROVE  task'[u].of = task'[u].profile
  BY <1>5, <1>7 DEF WindowInv, OwnSettings
<1>8. \A q \in Ids : store'[q] \in Ids => table'[q] # Nobody
  BY <1>3, <1>4, IdsAssumption DEF WindowInv, RowsHold
<1>9. ASSUME NEW q \in Ids, Deletable(q)' PROVE Deletable(q) /\ q # p
  BY <1>4, <1>9, IdsAssumption DEF Deletable
<1>10. CASE ~task[t].here
  <2>1. UNCHANGED <<names, ids, selected, form, dirty, stale>>
    BY <1>10 DEF RowDeleted, KeepForm
  <2>2. WindowTypes'
    BY <1>3, <1>4, <1>5, <2>1 DEF WindowInv, WindowTypes
  <2>3. RowsHold'
    BY <1>3, <1>8, <2>1 DEF WindowInv, RowsHold, Places
  <2>4. Awaited' \in SUBSET Awaited
    BY <1>5, <1>9, <2>1 DEF Awaited, HasRow
  <2>5. EnoughRows'
    BY <1>1, <2>1, <2>4, FewerAwaited DEF WindowInv
  <2>6. OwnSettings'
    BY <1>6, <1>7, <2>1 DEF WindowInv, OwnSettings, Places
  <2> QED
    BY <1>5, <2>2, <2>3, <2>5, <2>6 DEF WindowInv
<1>11. CASE task[t].here
  <2>1. selected \in Places
    BY <1>2, <1>3, <1>11, ThereIsARow DEF WindowInv
  <2>2. PICK k \in Int : k = selected /\ k \in 0..(Len(ids) - 1) /\ k + 1 \in 1..Len(ids)
    BY <1>1, <2>1 DEF Places
  <2>3. PICK q \in Seq(Ids) :
           /\ q = RemoveAt(ids, k + 1) /\ Len(q) = Len(ids) - 1
           /\ \A j \in 1..(Len(ids) - 1) : q[j] = IF j < k + 1 THEN ids[j] ELSE ids[j + 1]
    BY <1>1, <2>2, OneIsTakenOut
  <2>4. /\ ids' = q /\ names' \in Seq(Ids) /\ Len(names') = Len(names) - 1
        /\ names = ids => names' = q
    <3>1. ids' = q /\ names' = RemoveAt(names, k + 1)
      BY <1>1, <1>11, <2>2, <2>3 DEF RowDeleted, IdsAfter
    <3>2. k + 1 \in 1..Len(names)
      BY <1>1, <2>2
    <3> QED
      BY <1>1, <2>2, <2>3, <3>1, <3>2, OneIsTakenOut
  <2>5. ASSUME NEW j \in 1..Len(q) PROVE \E i \in 1..Len(ids) : q[j] = ids[i]
    <3>1. j \in 1..Len(ids) /\ j + 1 \in 1..Len(ids)
      BY <1>1, <2>3
    <3> QED
      BY <1>1, <2>3, <3>1
  <2>6. \/ Len(ids) = 1 /\ selected' = -1 /\ form' = [form EXCEPT !.visible = FALSE] /\ stale' = stale
        \/ Len(ids) > 1 /\ k = 0 /\ selected' = 0 /\ form' = form /\ stale' = stale \cup {"form"}
        \/ Len(ids) > 1 /\ k # 0 /\ selected' = 0 /\ Reload(ids, 0)
    <3>1. CASE Len(ids) = 1
      BY <1>11, <3>1 DEF RowDeleted
    <3>2. CASE Len(ids) > 1 /\ selected = 0
      <4>1. Len(ids) # 1
        BY <1>0, <3>2, OneOrMore, Zenon
      <4> QED
        BY <1>11, <2>2, <3>2, <4>1 DEF RowDeleted
    <3>3. CASE Len(ids) > 1 /\ selected # 0
      <4>1. Len(ids) # 1
        BY <1>0, <3>3, OneOrMore, Zenon
      <4> QED
        BY <1>11, <2>2, <3>3, <4>1 DEF RowDeleted
    <3>4. Len(ids) = 1 \/ Len(ids) > 1
      <4>1. Len(ids) # 0
        BY <2>2
      <4> QED
        BY <1>0, <4>1, OneOrMore, Zenon
    <3> QED
      BY <3>1, <3>2, <3>3, <3>4, Zenon
  <2>7. /\ form' \in [of : Ids \cup {Nobody}, visible : BOOLEAN] /\ (form'.visible => form'.of \in Ids)
        /\ "saved" \notin stale' => "saved" \notin stale
        /\ form'.visible /\ "form" \notin stale' => Len(ids) > 1 /\ k # 0 /\ form'.of = store[ids[1]]
    <3>1. CASE Len(ids) = 1 /\ selected' = -1 /\ form' = [form EXCEPT !.visible = FALSE] /\ stale' = stale
      BY <1>1, <3>1
    <3>2. CASE Len(ids) > 1 /\ k = 0 /\ selected' = 0 /\ form' = form /\ stale' = stale \cup {"form"}
      BY <1>1, <3>2 DEF WindowInv, WindowTypes
    <3>3. CASE Len(ids) > 1 /\ k # 0 /\ selected' = 0 /\ Reload(ids, 0)
      <4>1. 0 \in Places /\ 0 + 1 = 1
        BY <1>1, <3>3 DEF Places
      <4>2. /\ form' \in [of : Ids \cup {Nobody}, visible : BOOLEAN]
            /\ form'.of = store[ids[1]] /\ form'.of \in Ids /\ stale' = stale \ {"form"}
        BY <3>3, <4>1, ReloadShows
      <4> QED
        BY <3>3, <4>2
    <3> QED
      BY <2>6, <3>1, <3>2, <3>3
  <2>8. WindowTypes'
    BY <1>1, <1>3, <1>4, <1>5, <2>3, <2>4, <2>7 DEF WindowInv, WindowTypes
  <2>9. (selected' \in Places' /\ selected' = 0 /\ 1 \in 1..Len(q)) \/ (selected' = -1 /\ ids' = <<>> /\ Len(ids) = 1)
    <3>1. CASE Len(ids) = 1
      BY <2>3, <2>4, <2>6, <3>1, EmptySeq
    <3>2. CASE Len(ids) > 1
      BY <1>1, <2>3, <2>4, <2>6, <3>2 DEF Places
    <3> QED
      BY <2>6, <3>1, <3>2
  <2>10. RowsHold'
    <3>1. \A j \in 1..Len(q) : store[q[j]] \in Ids
      BY <2>5 DEF WindowInv, RowsHold
    <3> QED
      BY <1>3, <1>8, <2>4, <2>9, <3>1 DEF RowsHold
  <2>11. EnoughRows'
    <3>1. IsFiniteSet(Awaited) /\ Cardinality(Awaited) \in Nat /\ Cardinality(Awaited) <= Len(ids)
      BY IdsAssumption, FS_Subset, FS_CardinalityType DEF Awaited, WindowInv, EnoughRows
    <3>2. p \in Awaited
      BY <1>2, <1>3, <1>11 DEF Awaited, Removes
    <3>3. Awaited' \in SUBSET (Awaited \ {p})
      <4>1. ASSUME NEW x \in Ids, HasRow(x)' PROVE HasRow(x)
        BY <2>4, <2>5, <4>1 DEF HasRow
      <4> QED
        BY <1>5, <1>9, <4>1 DEF Awaited
    <3>4. PICK A, B : A = Awaited /\ B = Awaited'
      OBVIOUS
    <3>5. IsFiniteSet(A \ {p}) /\ Cardinality(A \ {p}) = Cardinality(A) - 1
      BY <3>1, <3>2, <3>4, FS_RemoveElement
    <3>6. Cardinality(B) <= Cardinality(A \ {p}) /\ Cardinality(B) \in Nat
      BY <3>3, <3>4, <3>5, FS_Subset, FS_CardinalityType
    <3> QED
      BY <1>1, <2>3, <2>4, <3>1, <3>4, <3>5, <3>6 DEF EnoughRows
  <2>12. OwnSettings'
    <3>1. ASSUME "saved" \notin stale', form'.visible, "form" \notin stale'
          PROVE  selected' \in Places' /\ form'.of = ids'[selected' + 1]
      <4>1. Len(ids) > 1 /\ k # 0 /\ form'.of = store[ids[1]] /\ selected' = 0 /\ selected' \in Places'
        <5>1. Len(ids) > 1 /\ k # 0 /\ form'.of = store[ids[1]]
          BY <2>7, <3>1
        <5>2. Len(ids) # 1
          BY <1>0, <5>1, OneOrMore, Zenon
        <5> QED
          BY <2>9, <5>1, <5>2
      <4>2. q[1] = ids[1] /\ 1 \in 1..Len(ids)
        <5>1. PICK n, j \in Int : n = Len(ids) /\ j = k
          BY <1>0
        <5>2. n > 1 /\ j >= 0 /\ j # 0
          BY <2>2, <4>1, <5>1
        <5>3. 1 \in 1..n /\ 1 \in 1..(n - 1) /\ 1 < j + 1
          BY <5>1, <5>2
        <5> QED
          BY <2>3, <5>1, <5>3
      <4>3. store[ids[1]] = ids[1]
        BY <2>7, <3>1, <4>2, ElementOfSeq, IdsAssumption
          DEF WindowInv, WindowTypes, RowsHold, OwnSettings
      <4> QED
        BY <2>4, <4>1, <4>2, <4>3
    <3>2. ASSUME "saved" \notin stale' PROVE "saved" \notin stale
      BY <2>7, <3>2
    <3> QED
      BY <1>6, <1>7, <3>1, <3>2 DEF OwnSettings
  <2> QED
    BY <1>5, <2>8, <2>10, <2>11, <2>12 DEF WindowInv
<1> QED
  BY <1>10, <1>11

(* For any number of profiles and of requests under way, and whatever      *)
(* overtakes what, dialogs included: an answer that removes a profile      *)
(* finds a row to remove, the form shows the profile selected, and no      *)
(* profile ends up with the settings of another, but for the exceptions    *)
(* the property names: a form whose first row is gone, a file chosen for a *)
(* form no longer shown, and a name given to another row.                  *)
THEOREM EditsStay == WindowSpec => []EditsStayWithTheirProfile
<1>1. ASSUME WindowInit PROVE WindowInv
  <2>1. /\ table \in [Ids -> Ids \cup {Nobody, Gone}] /\ store \in [Ids -> Ids \cup {Nobody}] /\ store = table
        /\ \A p \in Ids : table[p] \in {p, Nobody}
    BY <1>1 DEF WindowInit
  <2>2. PICK q \in Seq(Ids) : q = StoreList /\ \A i \in 1..Len(q) : store[q[i]] \in Ids
    BY <2>1, StoreListIsOfTheStore
  <2>3. /\ names = q /\ ids = q /\ Len(q) \in Nat /\ task = [t \in Tasks |-> Nobody] /\ stale = {}
        /\ asking = Nobody /\ misnamed = FALSE
        /\ selected = FirstOf(q) /\ form = FirstForm(q)
    BY <1>1, <2>2, LenProperties DEF WindowInit
  <2>4. /\ (selected = 0 /\ 1 \in 1..Len(q)) \/ (selected = -1 /\ q = <<>>)
        /\ form \in [of : Ids \cup {Nobody}, visible : BOOLEAN]
        /\ form.visible => form.of = store[q[1]] /\ form.of \in Ids /\ selected = 0 /\ 1 \in 1..Len(q)
    <3>1. CASE q = <<>>
      <4>1. selected = -1 /\ form = [of |-> Nobody, visible |-> FALSE]
        BY <2>3, <3>1 DEF FirstOf, FirstForm
      <4> QED
        BY <3>1, <4>1
    <3>2. CASE q # <<>>
      <4>1. selected = 0 /\ form = [of |-> store[q[1]], visible |-> TRUE]
        BY <2>3, <3>2 DEF FirstOf, FirstForm
      <4>2. 1 \in 1..Len(q) /\ store[q[1]] \in Ids
        BY <2>2, <2>3, <3>2, EmptySeq
      <4> QED
        BY <4>1, <4>2
    <3> QED
      BY <3>1, <3>2
  <2>5. WindowTypes
    BY <2>1, <2>2, <2>3, <2>4 DEF WindowTypes
  <2>6. RowsHold
    <3>1. \A i \in 1..Len(ids) : store[ids[i]] \in Ids
      BY <2>2, <2>3
    <3>2. \A p \in Ids : store[p] \in Ids => table[p] # Nobody
      BY <2>1, IdsAssumption
    <3>3. selected \in Places \/ (selected = -1 /\ ids = <<>>)
      BY <2>3, <2>4 DEF Places
    <3> QED
      BY <3>1, <3>2, <3>3 DEF RowsHold
  <2>7. TasksHold
    BY <2>3 DEF TasksHold
  <2>8. EnoughRows
    <3>1. PICK A : A = Awaited
      OBVIOUS
    <3>2. \A p \in A : \E j \in 1..Len(q) : q[j] = p
      BY <2>3, <3>1 DEF Awaited, HasRow, Removes
    <3>3. Cardinality(A) <= Len(q)
      BY <3>2, RowsAreEnough
    <3> QED
      BY <2>3, <3>1, <3>3 DEF EnoughRows
  <2>9. OwnSettings
    <3>1. form.visible => selected \in Places /\ form.of = ids[selected + 1]
      <4>1. 1 \in 1..Len(q) => q[1] \in Ids
        BY <2>2, ElementOfSeq
      <4>2. selected = 0 /\ 1 \in 1..Len(q) => selected \in Places /\ ids[selected + 1] = q[1]
        BY <2>3 DEF Places
      <4> QED
        BY <2>1, <2>4, <4>1, <4>2, IdsAssumption
    <3> QED
      BY <2>1, <2>3, <3>1 DEF OwnSettings
  <2> QED
    BY <2>5, <2>6, <2>7, <2>8, <2>9 DEF WindowInv
<1>2. ASSUME WindowInv PROVE EditsStayWithTheirProfile
  <2>1. ListsAgree
    BY <1>2, ThereIsARow DEF ListsAgree, WindowInv, WindowTypes
  <2> QED
    BY <1>2, <2>1 DEF EditsStayWithTheirProfile, WindowInv, OwnSettings, ActiveId
<1>3. ASSUME WindowInv, [WindowNext]_windowVars PROVE WindowInv'
  <2>1. CASE UNCHANGED windowVars
    BY <1>3, <2>1 DEF windowVars, WindowInv, WindowTypes, RowsHold, TasksHold, EnoughRows,
       OwnSettings, Awaited,
                      HasRow, Removes, Deletable, Places
  <2> QED
    BY <1>3, <2>1, UserKeeps, ReopenKeeps, RequestKeeps, AnswerKeeps, RowDeletedKeeps,
       CreatedKeeps DEF WindowNext
<1> QED
  BY <1>1, <1>2, <1>3, PTL DEF WindowSpec

-----------------------------------------------------------------------------
(* The lists.                                                              *)

ListTypes ==
    /\ present \subseteq Entries /\ rows \subseteq Entries
    /\ handler \in [Handlers -> ButtonTasks \cup {Free}]
    /\ appends \in BOOLEAN /\ failed \in BOOLEAN

(* A task that is going to give entry e its row.                           *)
Brings(h, e) ==
    \/ Is(h, "closed") \/ Is(h, "opening") \/ Is(h, "listing")
    \/ Is(h, "listed") /\ e \in handler[h].of
    \/ Is(h, "changed") /\ (e \in handler[h].of \/ ~(Adding(h) /\ appends))

(* An entry without a row, unless a request has failed, is on its way.     *)
OnItsWay == ~failed => \A e \in present \ rows : \E h \in Handlers : Brings(h, e)

LEMMA ListStep ==
    ASSUME ListTypes, OnItsWay, [ListNext]_listVars
    PROVE  ListTypes' /\ OnItsWay'
<1> USE FreeAssumption DEF ListTypes
<1>0. \A k \in ButtonTasks : k.of \subseteq Entries
  BY DEF ButtonTasks
(* A step of h moves no other task, so that h alone must be looked at.     *)
<1>a. ASSUME NEW h \in Handlers, NEW k, handler' = [handler EXCEPT ![h] = k], UNCHANGED appends,
             NEW e, NEW g \in Handlers, g # h, Brings(g, e)
      PROVE  Brings(g, e)'
  BY <1>a DEF Brings, Is, Adding
<1>b. ASSUME NEW h \in Handlers,
             NEW k \in ButtonTasks \cup {Free}, handler' = [handler EXCEPT ![h] = k],
             UNCHANGED appends, failed' \in BOOLEAN,
             present' \subseteq Entries, rows' \subseteq Entries,
             ~failed' => /\ ~failed
                         /\ \A e \in present' \ rows' :
                               \/ e \in present \ rows /\ ~Brings(h, e)
                               \/ Brings(h, e)'
      PROVE  ListTypes' /\ OnItsWay'
  <2>1. ListTypes'
    BY <1>b
  <2>2. ASSUME ~failed', NEW e \in present' \ rows', ~Brings(h, e)'
        PROVE  \E g \in Handlers : Brings(g, e)'
    <3>1. PICK g \in Handlers : Brings(g, e)
      BY <1>b, <2>2 DEF OnItsWay
    <3>2. g # h
      BY <1>b, <2>2, <3>1
    <3> QED
      BY <1>a, <1>b, <3>1, <3>2
  <2> QED
    BY <1>b, <2>1, <2>2 DEF OnItsWay
(* What the steps make of the task of h.                                   *)
<1>c. ASSUME NEW h \in Handlers, handler[h] # Free,
             NEW at \in {"closed", "opening", "dialog", "asked", "changed", "listing", "listed"}, NEW of \in SUBSET Entries,
             Moves(h, at, of)
      PROVE  \E k \in ButtonTasks : /\ handler' = [handler EXCEPT ![h] = k]
                                    /\ handler'[h] = k /\ handler'[h] # Free
                                    /\ k.button = handler[h].button /\ k.at = at /\ k.of = of
  <2> DEFINE k == [handler[h] EXCEPT !.at = at, !.of = of]
  <2>1. k \in ButtonTasks /\ k.button = handler[h].button /\ k.at = at /\ k.of = of
    BY <1>c DEF ButtonTasks
  <2>2. handler' = [handler EXCEPT ![h] = k]
    BY <1>c DEF Moves
  <2> HIDE DEF k
  <2> QED
    BY <2>1, <2>2
<1>d. ASSUME NEW h \in Handlers, Ends(h) PROVE handler' = [handler EXCEPT ![h] = Free]
  BY <1>d DEF Ends
<1>1. ASSUME NEW h \in Handlers, OpenList(h) \/ ReloadAfter(h) PROVE ListTypes' /\ OnItsWay'
  <2>1. handler[h] # Free /\ Moves(h, "opening", {})
    BY <1>1 DEF OpenList, ReloadAfter, Is
  <2>2. PICK k \in ButtonTasks : handler' = [handler EXCEPT ![h] = k] /\ handler'[h] = k /\ k.at = "opening"
    BY <1>c, <2>1
  <2>3. \A e : Brings(h, e)'
    BY <2>2 DEF Brings, Is
  <2> QED
    BY <1>1, <1>b, <2>2, <2>3 DEF OpenList, ReloadAfter
<1>2. ASSUME NEW h \in Handlers, NEW b, NEW at \in {"dialog", "asked", "opening"},
             NEW of \in SUBSET Entries,
             b \in Entries \cup {"add", "my ip", "refresh"}, Press(h, b, at, of)
      PROVE  ListTypes' /\ OnItsWay'
  <2> DEFINE k == [button |-> b, at |-> at, of |-> of]
  <2>1. k \in ButtonTasks /\ handler' = [handler EXCEPT ![h] = k]
    BY <1>2 DEF Press, ButtonTasks
  <2>2. \A e : ~Brings(h, e)
    BY <1>2 DEF Press, Brings, Is
  <2> QED
    BY <1>2, <1>b, <2>1, <2>2 DEF Press
<1>3. ASSUME NEW h \in Handlers, NEW confirmed \in BOOLEAN, CloseDialog(h, confirmed)
      PROVE  ListTypes' /\ OnItsWay'
  <2>1. \A e : ~Brings(h, e)
    BY <1>3 DEF CloseDialog, Brings, Is
  <2>2. \E k \in ButtonTasks \cup {Free} : handler' = [handler EXCEPT ![h] = k]
    BY <1>0, <1>3, <1>c, <1>d DEF CloseDialog, Is
  <2> QED
    BY <1>3, <1>b, <2>1, <2>2 DEF CloseDialog
<1>4. ASSUME NEW h \in Handlers, NEW a \in Entries, ServerAdds(h, a) PROVE ListTypes' /\ OnItsWay'
  <2>0. {a} \in SUBSET Entries /\ handler[h] # Free /\ Moves(h, "changed", {a})
    BY <1>4 DEF ServerAdds, Is
  <2>1. PICK k \in ButtonTasks : handler' = [handler EXCEPT ![h] = k] /\ handler'[h] = k
                                 /\ k.at = "changed" /\ k.of = {a}
    BY <1>c, <2>0
  <2>2. Brings(h, a)' /\ \A e : ~Brings(h, e)
    BY <1>4, <2>1 DEF ServerAdds, Brings, Is
  <2> QED
    BY <1>4, <1>b, <2>1, <2>2 DEF ServerAdds
<1>5. ASSUME NEW h \in Handlers, ServerDeletes(h) PROVE ListTypes' /\ OnItsWay'
  <2>1. \A e : ~Brings(h, e)
    BY <1>5 DEF ServerDeletes, Brings, Is
  <2>2. \E k \in ButtonTasks \cup {Free} : handler' = [handler EXCEPT ![h] = k]
    BY <1>0, <1>5, <1>c DEF ServerDeletes, Is
  <2> QED
    BY <1>5, <1>b, <2>1, <2>2 DEF ServerDeletes
<1>6. ASSUME NEW h \in Handlers, AppendRow(h) PROVE ListTypes' /\ OnItsWay'
  <2>1. \A e : Brings(h, e) => e \in handler[h].of
    BY <1>6 DEF AppendRow, Brings, Is
  <2>2. handler[h].of \subseteq Entries
    BY <1>0, <1>6 DEF AppendRow, Is
  <2> QED
    BY <1>6, <1>b, <1>d, <2>1, <2>2 DEF AppendRow
<1>7. ASSUME NEW h \in Handlers, RequestFails(h) \/ ListingFails(h) PROVE ListTypes' /\ OnItsWay'
  BY <1>7, <1>b, <1>d DEF RequestFails, ListingFails
<1>8. ASSUME NEW h \in Handlers, ClearRows(h) PROVE ListTypes' /\ OnItsWay'
  <2>1. PICK k \in ButtonTasks : handler' = [handler EXCEPT ![h] = k] /\ handler'[h] = k /\ k.at = "listing"
    BY <1>8, <1>c DEF ClearRows, Is
  <2>2. \A e : Brings(h, e)'
    BY <2>1 DEF Brings, Is
  <2> QED
    BY <1>8, <2>1, <2>2 DEF ClearRows, OnItsWay
<1>9. ASSUME NEW h \in Handlers, ServerLists(h) PROVE ListTypes' /\ OnItsWay'
  <2>1. PICK k \in ButtonTasks : handler' = [handler EXCEPT ![h] = k] /\ handler'[h] = k
                                 /\ k.at = "listed" /\ k.of = present
    BY <1>9, <1>c DEF ServerLists, Is
  <2>2. \A e \in present : Brings(h, e)'
    BY <2>1 DEF Brings, Is
  <2> QED
    BY <1>9, <1>b, <2>1, <2>2 DEF ServerLists
<1>10. ASSUME NEW h \in Handlers, AppendRows(h) PROVE ListTypes' /\ OnItsWay'
  <2>1. \A e : Brings(h, e) => e \in handler[h].of
    BY <1>10 DEF AppendRows, Brings, Is
  <2>2. handler[h].of \subseteq Entries
    BY <1>0, <1>10 DEF AppendRows, Is
  <2> QED
    BY <1>10, <1>b, <2>1, <2>2 DEF AppendRows
<1>11. CASE UNCHANGED listVars
  BY <1>11 DEF listVars, OnItsWay, Brings, Is, Adding
<1>12. ASSUME NEW h \in Handlers, PressAdd(h) \/ PressMyIp(h) \/ PressRefresh(h)
       PROVE  ListTypes' /\ OnItsWay'
  <2>1. {} \in SUBSET Entries
    OBVIOUS
  <2>2. CASE PressAdd(h)
    BY <1>2, <2>1, <2>2, Zenon DEF PressAdd
  <2>3. CASE PressMyIp(h)
    BY <1>2, <2>1, <2>3, Zenon DEF PressMyIp
  <2>4. CASE PressRefresh(h)
    BY <1>2, <2>1, <2>4, Zenon DEF PressRefresh
  <2> QED
    BY <1>12, <2>2, <2>3, <2>4
<1>13. ASSUME NEW h \in Handlers, NEW e \in Entries, PressDelete(h, e)
       PROVE  ListTypes' /\ OnItsWay'
  <2>1. {e} \in SUBSET Entries
    OBVIOUS
  <2>2. Press(h, e, "asked", {e}) \/ Press(h, e, "dialog", {e})
    BY <1>13 DEF PressDelete
  <2> QED
    BY <1>2, <2>1, <2>2, Zenon
<1> QED
  BY <1>1, <1>3, <1>4, <1>5, <1>6, <1>7, <1>8, <1>9, <1>10, <1>11, <1>12, <1>13
    DEF ListNext, Progress

LEMMA ListStarts ==
    ASSUME ListInit
    PROVE  ListTypes /\ OnItsWay
<1> DEFINE load == [button |-> "none", at |-> "closed", of |-> {}]
<1>1. load \in ButtonTasks /\ load.at = "closed"
  BY DEF ButtonTasks
<1>2. PICK first \in Handlers : handler = [h \in Handlers |-> IF h = first THEN load ELSE Free]
  BY <1>1 DEF ListInit
<1> HIDE DEF load
<1>3. ListTypes
  BY <1>1, <1>2 DEF ListInit, ListTypes
<1>4. \A e : Brings(first, e)
  BY <1>1, <1>2, FreeAssumption DEF Brings, Is
<1> QED
  BY <1>3, <1>4 DEF OnItsWay

(* Whatever reloads, additions and deletions overtake one another, for any *)
(* number of tasks and entries: once they have all ended and none has      *)
(* failed since the rows were cleared, every entry has its row.            *)
THEOREM EveryEntryIsShown == ListSpec => []NothingMissing
<1>1. ListTypes /\ OnItsWay => NothingMissing
  BY DEF OnItsWay, NothingMissing, Brings, Is
<1> QED
  BY <1>1, ListStarts, ListStep, PTL DEF ListSpec

(* A button that is insensitive is some task's, which has yet to end.      *)
NoButtonStranded ==
    \A b \in disabled : \E h \in Handlers : handler[h] # Free /\ handler[h].button = b

(* A step of h keeps the buttons of the others, and its own while it has   *)
(* not ended.                                                              *)
LEMMA ButtonStays ==
    ASSUME ListTypes, NoButtonStranded, NEW h \in Handlers, NEW k \in ButtonTasks \cup {Free},
           handler' = [handler EXCEPT ![h] = k],
           \/ k # Free /\ handler[h] = Free /\ disabled' = disabled \cup {k.button}
           \/ k # Free /\ handler[h] # Free /\ k.button = handler[h].button /\ disabled' \subseteq disabled
           \/ disabled' \subseteq disabled \ {handler[h].button}
    PROVE  NoButtonStranded'
<1>1. handler'[h] = k /\ \A g \in Handlers \ {h} : handler'[g] = handler[g]
  BY DEF ListTypes
<1> SUFFICES ASSUME NEW b \in disabled'
             PROVE  \E g \in Handlers : handler'[g] # Free /\ handler'[g].button = b
  BY DEF NoButtonStranded
<1>2. CASE b \in disabled
  <2>1. PICK g \in Handlers : handler[g] # Free /\ handler[g].button = b
    BY <1>2 DEF NoButtonStranded
  <2>2. CASE g # h
    BY <1>1, <2>1, <2>2
  <2>3. CASE g = h
    BY <1>1, <2>1, <2>3
  <2> QED
    BY <2>2, <2>3
<1>3. CASE b \notin disabled
  BY <1>1, <1>3
<1> QED
  BY <1>2, <1>3

(* For any number of tasks and entries, whatever fails and whichever       *)
(* dialog is closed: no button stays insensitive without a task that will  *)
(* make it sensitive again (routing.rs 345, 395; users.rs). ButtonsComeBack *)
(* rests on it: what is left of that property is that tasks end.           *)
THEOREM NoButtonIsStranded == ListSpec => []NoButtonStranded
<1>1. ASSUME ListTypes, NoButtonStranded, [ListNext]_listVars
      PROVE  NoButtonStranded'
  <2> USE FreeAssumption
  <2>0. \A h \in Handlers : handler[h] \in ButtonTasks \cup {Free}
    BY <1>1 DEF ListTypes
  <2>a. ASSUME NEW h \in Handlers, handler[h] # Free, UNCHANGED disabled,
               NEW at \in {"closed", "opening", "dialog", "asked", "changed", "listing", "listed"},
               NEW of \in SUBSET Entries, Moves(h, at, of)
        PROVE  NoButtonStranded'
    <3> DEFINE k == [handler[h] EXCEPT !.at = at, !.of = of]
    <3>1. k \in ButtonTasks /\ k.button = handler[h].button /\ handler' = [handler EXCEPT ![h] = k]
      BY <2>0, <2>a DEF ButtonTasks, Moves
    <3> HIDE DEF k
    <3> QED
      BY <1>1, <2>a, <3>1, ButtonStays
  <2>b. ASSUME NEW h \in Handlers, handler' = [handler EXCEPT ![h] = Free],
               disabled' \subseteq disabled \ {handler[h].button}
        PROVE  NoButtonStranded'
    BY <1>1, <2>b, ButtonStays
  <2>c. ASSUME NEW h \in Handlers, handler[h] # Free, NEW e \in handler[h].of PROVE e \in Entries
    BY <2>0, <2>c DEF ButtonTasks
  <2>d. ASSUME NEW h \in Handlers, handler[h] # Free PROVE handler[h].of \in SUBSET Entries
    BY <2>c, <2>d
  <2>e. {} \in SUBSET Entries /\ present \in SUBSET Entries /\ \A e \in Entries : {e} \in SUBSET Entries
    BY <1>1 DEF ListTypes
  <2>1. ASSUME NEW h \in Handlers, OpenList(h) \/ ReloadAfter(h) \/ ClearRows(h)
        PROVE  NoButtonStranded'
    BY <2>1, <2>a, <2>e DEF OpenList, ReloadAfter, ClearRows, Is
  <2>2. ASSUME NEW h \in Handlers, ServerLists(h) \/ ServerDeletes(h) PROVE NoButtonStranded'
    BY <2>2, <2>a, <2>d, <2>e DEF ServerLists, ServerDeletes, Is
  <2>3. ASSUME NEW h \in Handlers, NEW e \in Entries, ServerAdds(h, e) PROVE NoButtonStranded'
    BY <2>3, <2>a, <2>e DEF ServerAdds, Is
  <2>4. ASSUME NEW h \in Handlers,
               AppendRow(h) \/ RequestFails(h) \/ ListingFails(h) \/ AppendRows(h)
        PROVE  NoButtonStranded'
    BY <2>4, <2>b DEF AppendRow, RequestFails, ListingFails, AppendRows, Ends
  <2>5. ASSUME NEW h \in Handlers, NEW confirmed \in BOOLEAN, CloseDialog(h, confirmed)
        PROVE  NoButtonStranded'
    BY <2>5, <2>a, <2>b, <2>d DEF CloseDialog, Is, Ends
  <2>6. ASSUME NEW h \in Handlers, NEW b \in Entries \cup {"add", "my ip", "refresh"},
               NEW at \in {"dialog", "asked", "opening"}, NEW of \in SUBSET Entries, Press(h, b, at, of)
        PROVE  NoButtonStranded'
    <3> DEFINE k == [button |-> b, at |-> at, of |-> of]
    <3>1. k \in ButtonTasks /\ handler' = [handler EXCEPT ![h] = k] /\ handler[h] = Free
          /\ disabled' = disabled \cup {k.button}
      BY <2>6 DEF Press, ButtonTasks
    <3>2. k # Free
      BY <3>1
    <3> HIDE DEF k
    <3> QED
      BY <1>1, <3>1, <3>2, ButtonStays
  <2>7. ASSUME NEW h \in Handlers, PressAdd(h) \/ PressMyIp(h) \/ PressRefresh(h)
        PROVE  NoButtonStranded'
    BY <2>6, <2>7, <2>e DEF PressAdd, PressMyIp, PressRefresh
  <2>8. ASSUME NEW h \in Handlers, NEW e \in Entries, PressDelete(h, e) PROVE NoButtonStranded'
    BY <2>6, <2>8, <2>e DEF PressDelete
  <2>9. CASE UNCHANGED listVars
    BY <1>1, <2>9 DEF listVars, NoButtonStranded
  <2> QED
    BY <1>1, <2>1, <2>2, <2>3, <2>4, <2>5, <2>7, <2>8, <2>9 DEF ListNext, Progress
<1>2. ListInit => NoButtonStranded
  BY DEF ListInit, NoButtonStranded
<1>3. ListSpec => [](ListTypes /\ OnItsWay)
  BY ListStarts, ListStep, PTL DEF ListSpec
<1> QED
  BY <1>1, <1>2, <1>3, PTL DEF ListSpec

-----------------------------------------------------------------------------
(* The log.                                                                *)

(* Turns of the ring, without a remainder.                                 *)
LEMMA Turns ==
    ASSUME NEW n \in Nat \ {0}, NEW i \in 0..(2 * n - 1)
    PROVE  i % n = IF i < n THEN i ELSE i - n
OBVIOUS

(* The history of kept lines behind the ring: it holds the last of them,   *)
(* the newest just before writePos.                                        *)
RingHolds ==
    /\ kept \in Seq(Nat) /\ ring \in Seq(Nat) /\ lines \in Nat
    /\ writePos \in 0..(RingCap - 1)
    /\ Len(ring) < RingCap => ring = kept /\ writePos = Len(ring)
    /\ Len(ring) >= RingCap =>
          /\ Len(ring) = RingCap /\ Len(kept) >= RingCap
          /\ \A i \in 1..RingCap :
                ring[i] = kept[Len(kept) - writePos + i - (IF i <= writePos THEN 0 ELSE RingCap)]

(* The line at position i of a full ring, w being the next to be replaced  *)
(* and m the number of lines kept.                                         *)
Age(m, w, i) == m - w + i - (IF i <= w THEN 0 ELSE RingCap)

LEMMA Successor ==
    ASSUME NEW w \in 0..(RingCap - 1)
    PROVE  (w + 1) % RingCap = IF w + 1 < RingCap THEN w + 1 ELSE 0
<1>1. RingCap \in Nat \ {0} /\ w + 1 \in 0..(2 * RingCap - 1)
  BY CapAssumption
<1>2. PICK i \in 0..(2 * RingCap - 1) : i = w + 1
  BY <1>1
<1>3. i % RingCap = IF i < RingCap THEN i ELSE i - RingCap
  BY <1>1, Turns
<1> QED
  BY <1>1, <1>2, <1>3

LEMMA Ageing ==
    ASSUME NEW w \in 0..(RingCap - 1), NEW v, v = (w + 1) % RingCap, NEW m \in Nat,
           NEW i \in 1..RingCap
    PROVE  Age(m + 1, v, i) = IF i = w + 1 THEN m + 1 ELSE Age(m, w, i)
<1>1. v = IF w + 1 < RingCap THEN w + 1 ELSE 0
  BY Successor
<1>2. CASE w + 1 < RingCap
  BY <1>1, <1>2, CapAssumption DEF Age
<1>3. CASE w + 1 = RingCap
  BY <1>1, <1>3, CapAssumption DEF Age
<1> QED
  BY <1>2, <1>3, CapAssumption

LEMMA AgeInRange ==
    ASSUME NEW w \in 0..(RingCap - 1), NEW m \in Nat, m >= RingCap, NEW i \in 1..RingCap
    PROVE  Age(m, w, i) \in 1..m
BY CapAssumption DEF Age

LEMMA PushKeeps ==
    ASSUME RingHolds, NEW line \in Nat, Push(line), lines' \in Nat
    PROVE  RingHolds'
<1>0. RingCap \in Nat \ {0}
  BY CapAssumption
<1>1. /\ kept' \in Seq(Nat) /\ Len(kept') = Len(kept) + 1 /\ kept'[Len(kept) + 1] = line
      /\ \A i \in 1..Len(kept) : kept'[i] = kept[i]
  BY AppendProperties DEF Push, RingHolds
<1>2. writePos' = (writePos + 1) % RingCap
  BY DEF Push
<1>a. writePos' = IF writePos + 1 < RingCap THEN writePos + 1 ELSE 0
  BY <1>2, Successor DEF RingHolds
<1>b. writePos \in 0..(RingCap - 1) /\ writePos' \in 0..(RingCap - 1) /\ Len(kept) \in Nat /\ Len(ring) \in Nat
  BY <1>0, <1>a, LenProperties DEF RingHolds
<1>3. CASE Len(ring) < RingCap
  <2>1. ring = kept /\ writePos = Len(ring) /\ ring' = kept' /\ Len(ring') = Len(ring) + 1
    BY <1>1, <1>3 DEF Push, RingHolds
  <2>2. CASE Len(ring) + 1 < RingCap
    BY <1>0, <1>1, <1>a, <1>b, <2>1, <2>2 DEF RingHolds
  <2>3. CASE Len(ring) + 1 = RingCap
    <3>1. writePos' = 0 /\ Len(ring') = RingCap /\ Len(kept') = RingCap
      BY <1>0, <1>1, <1>a, <1>b, <2>1, <2>3
    <3>2. \A i \in 1..RingCap : Len(kept') - writePos' + i - (IF i <= writePos' THEN 0 ELSE RingCap) = i
      BY <1>0, <3>1
    <3>3. \A i \in 1..RingCap :
             ring'[i] = kept'[Len(kept') - writePos' + i - (IF i <= writePos' THEN 0 ELSE RingCap)]
      BY <2>1, <3>2
    <3> QED
      BY <1>0, <1>1, <1>b, <2>1, <3>1, <3>3 DEF RingHolds
  <2> QED
    BY <1>0, <1>3, <1>b, <2>2, <2>3
<1>4. CASE Len(ring) >= RingCap
  <2>1. ring' = [ring EXCEPT ![writePos + 1] = line] /\ Len(ring) = RingCap /\ ring \in Seq(Nat)
        /\ Len(kept) >= RingCap /\ writePos + 1 \in 1..RingCap
        /\ \A i \in 1..RingCap : ring[i] = kept[Age(Len(kept), writePos, i)]
    BY <1>0, <1>4, <1>b DEF Push, RingHolds, Age
  <2>2. /\ ring' \in Seq(Nat) /\ Len(ring') = RingCap
        /\ \A i \in 1..RingCap : ring'[i] = IF i = writePos + 1 THEN line ELSE ring[i]
    BY <2>1, ExceptSeq
  <2>3. ASSUME NEW i \in 1..RingCap
        PROVE  ring'[i] = kept'[Age(Len(kept'), writePos', i)]
    <3>1. Age(Len(kept'), writePos', i) = IF i = writePos + 1 THEN Len(kept) + 1 ELSE Age(Len(kept), writePos, i)
      BY <1>1, <1>2, <1>b, Ageing
    <3>2. Age(Len(kept), writePos, i) \in 1..Len(kept)
      BY <1>b, <2>1, AgeInRange
    <3> QED
      BY <1>1, <2>1, <2>2, <3>1, <3>2
  <2>4. Len(kept') \in Nat /\ Len(kept') >= RingCap /\ ~(Len(ring') < RingCap)
    BY <1>0, <1>1, <1>b, <2>1, <2>2
  <2> QED
    BY <1>1, <1>b, <2>2, <2>3, <2>4 DEF RingHolds, Age
<1> QED
  BY <1>0, <1>b, <1>3, <1>4

(* Reading backwards from writePos.                                        *)
LEMMA Backwards ==
    ASSUME NEW w \in 0..(RingCap - 1), NEW take \in 0..RingCap, NEW i \in 1..take, NEW m \in Nat
    PROVE  LET start == (w + RingCap - take) % RingCap
               at == (start + i - 1) % RingCap
           IN  at + 1 \in 1..RingCap /\ Age(m, w, at + 1) = m - take + i
<1> DEFINE start == (w + RingCap - take) % RingCap
           at == (start + i - 1) % RingCap
<1>0. RingCap \in Nat \ {0}
  BY CapAssumption
<1>1. start = IF w < take THEN w + RingCap - take ELSE w - take
  <2>1. w + RingCap - take \in 0..(2 * RingCap - 1)
    BY <1>0
  <2>2. start = IF w + RingCap - take < RingCap THEN w + RingCap - take ELSE (w + RingCap - take) - RingCap
    BY <1>0, <2>1, Turns
  <2> QED
    BY <1>0, <2>1, <2>2
<1> HIDE DEF start
<1>2. at = IF start + i - 1 < RingCap THEN start + i - 1 ELSE (start + i - 1) - RingCap
  <2>1. start + i - 1 \in 0..(2 * RingCap - 1)
    BY <1>0, <1>1
  <2> QED
    BY <1>0, <2>1, Turns
<1> HIDE DEF at
<1>3. at + 1 = IF w - take + i >= 1 THEN w - take + i ELSE w - take + i + RingCap
  BY <1>0, <1>1, <1>2
<1>4. at + 1 \in 1..RingCap /\ Age(m, w, at + 1) = m - take + i
  BY <1>0, <1>3 DEF Age
<1> QED
  BY <1>4 DEF start, at

LEMMA RingReads == RingHolds => RingIsRecent
<1> SUFFICES ASSUME RingHolds, NEW n \in 0..(RingCap + 1)
             PROVE  LET take == Smaller(n, Smaller(RingCap, Len(kept)))
                    IN  LastN(n) = SubSeq(kept, Len(kept) - take + 1, Len(kept))
  BY DEF RingIsRecent
<1> DEFINE take == Smaller(n, Smaller(RingCap, Len(kept)))
<1>0. RingCap \in Nat \ {0} /\ Len(kept) \in Nat /\ Len(ring) \in Nat /\ n \in Nat
  BY CapAssumption, LenProperties DEF RingHolds
<1>a. take \in 0..RingCap /\ take <= Len(kept) /\ take = Smaller(n, Len(ring)) /\ take <= Len(ring)
  <2>1. Smaller(RingCap, Len(kept)) = Len(ring)
    BY <1>0 DEF RingHolds, Smaller
  <2> QED
    BY <1>0, <2>1 DEF Smaller
<1> HIDE DEF take
<1>1. CASE Len(ring) < RingCap
  <2>1. ring = kept
    BY <1>1 DEF RingHolds
  <2> QED
    BY <1>a, <1>1, <2>1 DEF LastN, take
<1>2. CASE Len(ring) >= RingCap
  <2>1. Len(ring) = RingCap /\ Len(kept) >= RingCap /\ writePos \in 0..(RingCap - 1)
        /\ \A i \in 1..RingCap : ring[i] = kept[Age(Len(kept), writePos, i)]
    BY <1>2 DEF RingHolds, Age
  <2>2. LastN(n) = [i \in 1..take |-> ring[((Start(take) + i - 1) % RingCap) + 1]]
    BY <1>0, <1>a, <2>1 DEF LastN
  <2>3. ASSUME NEW i \in 1..take
        PROVE  ring[((Start(take) + i - 1) % RingCap) + 1] = kept[Len(kept) - take + i]
    <3>1. PICK w \in 0..(RingCap - 1), k \in 0..RingCap, m \in Nat :
             w = writePos /\ k = take /\ m = Len(kept) /\ i \in 1..k
      BY <1>0, <1>a, <2>1
    <3> DEFINE at == (((w + RingCap - k) % RingCap) + i - 1) % RingCap
    <3>2. at + 1 \in 1..RingCap /\ Age(m, w, at + 1) = m - k + i
      BY <3>1, Backwards
    <3>3. (Start(take) + i - 1) % RingCap = at
      BY <2>1, <3>1 DEF Start
    <3> HIDE DEF at
    <3> QED
      BY <2>1, <3>1, <3>2, <3>3
  <2>4. SubSeq(kept, Len(kept) - take + 1, Len(kept)) = [i \in 1..take |-> kept[Len(kept) - take + i]]
    <3>1. kept \in Seq(Nat)
      BY DEF RingHolds
    <3>2. take \in 0..Len(kept)
      BY <1>0, <1>a
    <3> QED
      BY <1>0, <3>1, <3>2
  <2> QED
    BY <2>2, <2>3, <2>4 DEF take
<1> QED
  BY <1>0, <1>1, <1>2

(* What of the events a stream has gone past it neither delivered nor      *)
(* could skip.                                                             *)
Undelivered(s, r) == {s[i] : i \in r.base..(r.next - 1)} \ (r.got \cup {0})

ViewerStates == [at : {"closed", "connecting", "open", "waiting"}, delay : Nat, base : Nat,
                 next : Nat, got : SUBSET Nat, missed : Nat]

StreamsHold ==
    /\ sent \in Seq(Nat) /\ viewer \in [Viewers -> ViewerStates]
    /\ \A v \in Viewers : viewer[v].at = "open" =>
          /\ 1 <= viewer[v].base /\ viewer[v].base <= viewer[v].next
          /\ viewer[v].next <= Len(sent) + 1
          /\ Cardinality(Undelivered(sent, viewer[v])) <= viewer[v].missed

LEMMA StretchIsFinite ==
    ASSUME NEW a \in Nat, NEW b \in Nat, NEW s
    PROVE  /\ IsFiniteSet({s[i] : i \in a..(b - 1)})
           /\ Cardinality({s[i] : i \in a..(b - 1)}) \in Nat
           /\ a <= b => Cardinality({s[i] : i \in a..(b - 1)}) <= b - a
<1> DEFINE T == {s[i] : i \in a..(b - 1)}
           f == [i \in a..(b - 1) |-> s[i]]
<1>1. IsFiniteSet(a..(b - 1)) /\ Cardinality(a..(b - 1)) = IF a > b - 1 THEN 0 ELSE (b - 1) - a + 1
  BY FS_Interval
<1>2. f \in Surjection(a..(b - 1), T)
  BY DEF Surjection
<1> HIDE DEF f, T
<1>3. IsFiniteSet(T) /\ Cardinality(T) <= Cardinality(a..(b - 1))
  BY <1>1, <1>2, FS_Surjection
<1>4. Cardinality(T) \in Nat
  BY <1>3, FS_CardinalityType
<1> QED
  BY <1>1, <1>3, <1>4 DEF T

LEMMA UndeliveredIsFinite ==
    ASSUME NEW s, NEW r \in ViewerStates
    PROVE  IsFiniteSet(Undelivered(s, r)) /\ Cardinality(Undelivered(s, r)) \in Nat
<1> DEFINE T == {s[i] : i \in r.base..(r.next - 1)}
<1>1. IsFiniteSet(T)
  <2>1. PICK a \in Nat, b \in Nat : a = r.base /\ b = r.next
    BY DEF ViewerStates
  <2>2. IsFiniteSet({s[i] : i \in a..(b - 1)})
    BY StretchIsFinite
  <2> QED
    BY <2>1, <2>2
<1>2. Undelivered(s, r) \in SUBSET T
  BY DEF Undelivered
<1> HIDE DEF T
<1> QED
  BY <1>1, <1>2, FS_Subset, FS_CardinalityType

(* One viewer changes, to a state that accounts for all.                   *)
LEMMA OneViewer ==
    ASSUME StreamsHold, NEW v \in Viewers, NEW r \in ViewerStates, Set(v, r),
           r.at = "open" => /\ 1 <= r.base /\ r.base <= r.next /\ r.next <= Len(sent) + 1
                            /\ Cardinality(Undelivered(sent, r)) <= r.missed
    PROVE  StreamsHold'
BY DEF StreamsHold, Set

LEMMA SendKeeps ==
    ASSUME StreamsHold, NEW event \in Nat, Broadcast(event), UNCHANGED viewer
    PROVE  StreamsHold'
<1>1. sent' \in Seq(Nat) /\ Len(sent') >= Len(sent) /\ \A i \in 1..Len(sent) : sent'[i] = sent[i]
  <2>1. CASE sent' = sent
    BY <2>1 DEF StreamsHold
  <2>2. CASE sent' = Append(sent, event)
    BY <2>2, AppendProperties DEF StreamsHold
  <2> QED
    BY <2>1, <2>2 DEF Broadcast
<1>2. ASSUME NEW v \in Viewers, viewer[v].at = "open"
      PROVE  Undelivered(sent', viewer[v]) = Undelivered(sent, viewer[v])
  <2>1. \A i \in viewer[v].base..(viewer[v].next - 1) : i \in 1..Len(sent)
    BY <1>2 DEF StreamsHold, ViewerStates
  <2> QED
    BY <1>1, <2>1 DEF Undelivered
<1>3. ASSUME NEW v \in Viewers, viewer[v].at = "open"
      PROVE  viewer[v].next <= Len(sent') + 1
  <2>1. Len(sent) \in Nat /\ Len(sent') \in Nat /\ viewer[v].next \in Nat
    BY <1>1, LenProperties DEF StreamsHold, ViewerStates
  <2> QED
    BY <1>1, <1>3, <2>1 DEF StreamsHold
<1> QED
  BY <1>1, <1>2, <1>3 DEF StreamsHold

LEMMA ReceiveKeeps ==
    ASSUME StreamsHold, NEW v \in Viewers, Receive(v)
    PROVE  StreamsHold'
<1> DEFINE r == viewer[v]
           new == [r EXCEPT !.next = @ + 1, !.got = IF sent[r.next] = 0 THEN @ ELSE @ \cup {sent[r.next]}]
<1>1. /\ r \in ViewerStates /\ r.at = "open" /\ r.next <= Len(sent) /\ Set(v, new)
      /\ 1 <= r.base /\ r.base <= r.next /\ Cardinality(Undelivered(sent, r)) <= r.missed
  BY DEF Receive, StreamsHold
<1>2. r.next \in 1..Len(sent) /\ Len(sent) \in Nat /\ sent[r.next] \in Nat
  BY <1>1, LenProperties, ElementOfSeq DEF StreamsHold, ViewerStates
<1>3. /\ new \in ViewerStates /\ new.at = "open" /\ new.base = r.base /\ new.next = r.next + 1
      /\ new.missed = r.missed /\ r.got \subseteq new.got
      /\ sent[r.next] \in new.got \cup {0}
  <2>1. PICK got \in SUBSET Nat : /\ got = IF sent[r.next] = 0 THEN r.got ELSE r.got \cup {sent[r.next]}
                                  /\ r.got \subseteq got /\ sent[r.next] \in got \cup {0}
    <3> DEFINE all == IF sent[r.next] = 0 THEN r.got ELSE r.got \cup {sent[r.next]}
    <3>1. r.got \in SUBSET Nat
      BY <1>1 DEF ViewerStates
    <3>2. all \in SUBSET Nat /\ r.got \subseteq all /\ sent[r.next] \in all \cup {0}
      BY <1>2, <3>1
    <3> QED
      BY <3>2
  <2>2. r.next + 1 \in Nat
    BY <1>2
  <2>3. new = [r EXCEPT !.next = r.next + 1, !.got = got]
    BY <1>1, <2>1 DEF ViewerStates
  <2> QED
    BY <1>1, <2>1, <2>2, <2>3 DEF ViewerStates
<1>4. r.base \in Nat /\ r.next \in Nat /\ r.missed \in Nat
  BY <1>1 DEF ViewerStates
<1> HIDE DEF r, new
<1>5. Undelivered(sent, new) \in SUBSET Undelivered(sent, r)
  <2>1. ASSUME NEW i \in new.base..(new.next - 1), sent[i] \notin new.got \cup {0}
        PROVE  i \in r.base..(r.next - 1) /\ sent[i] \notin r.got
    BY <1>3, <1>4, <2>1
  <2> QED
    BY <2>1 DEF Undelivered
<1>6. Cardinality(Undelivered(sent, new)) <= new.missed
  <2>1. Cardinality(Undelivered(sent, new)) <= Cardinality(Undelivered(sent, r))
    BY <1>1, <1>5, UndeliveredIsFinite, FS_Subset
  <2> QED
    BY <1>1, <1>3, <1>4, <2>1, UndeliveredIsFinite
<1> QED
  BY <1>1, <1>2, <1>3, <1>4, <1>6, OneViewer

LEMMA LagKeeps ==
    ASSUME StreamsHold, NEW v \in Viewers, Lagged(v)
    PROVE  StreamsHold'
<1> DEFINE r == viewer[v]
           new == [r EXCEPT !.next = Oldest, !.missed = @ + LagFrame(Oldest - r.next)]
           lost == {sent[i] : i \in r.next..(Oldest - 1)}
<1>1. /\ r \in ViewerStates /\ r.at = "open" /\ r.next < Oldest /\ Set(v, new)
      /\ 1 <= r.base /\ r.base <= r.next /\ Cardinality(Undelivered(sent, r)) <= r.missed
  BY DEF Lagged, StreamsHold
<1>2. Oldest \in 1..(Len(sent) + 1) /\ Len(sent) \in Nat
  BY CapAssumption, LenProperties DEF StreamsHold, Oldest
<1>4. r.base \in Nat /\ r.next \in Nat /\ r.missed \in Nat
  BY <1>1 DEF ViewerStates
<1>3. /\ new \in ViewerStates /\ new.at = "open" /\ new.base = r.base /\ new.next = Oldest
      /\ new.missed = r.missed + (Oldest - r.next) /\ new.got = r.got
  <2>1. Oldest \in Nat /\ r.missed + (Oldest - r.next) \in Nat
    BY <1>1, <1>2, <1>4
  <2>2. PICK o \in Nat, m \in Nat : o = Oldest /\ m = r.missed + (Oldest - r.next)
    BY <2>1
  <2>3. new = [r EXCEPT !.next = o, !.missed = m]
    BY <1>1, <2>2 DEF ViewerStates, LagFrame
  <2> QED
    BY <1>1, <2>2, <2>3 DEF ViewerStates
<1> HIDE DEF r, new
<1>5. Undelivered(sent, new) \in SUBSET (Undelivered(sent, r) \cup lost)
  <2>1. ASSUME NEW i \in new.base..(new.next - 1)
        PROVE  i \in r.base..(r.next - 1) \/ i \in r.next..(Oldest - 1)
    BY <1>2, <1>3, <1>4, <2>1
  <2> QED
    BY <1>3, <2>1 DEF Undelivered
<1>6. IsFiniteSet(lost) /\ Cardinality(lost) \in Nat /\ Cardinality(lost) <= Oldest - r.next
  <2>1. PICK a \in Nat, b \in Nat : a = r.next /\ b = Oldest /\ a <= b
    BY <1>1, <1>2, <1>4
  <2>4. PICK s : s = sent
    OBVIOUS
  <2> DEFINE T == {s[i] : i \in a..(b - 1)}
  <2>2. IsFiniteSet(T) /\ Cardinality(T) \in Nat /\ Cardinality(T) <= b - a
    <3>1. IsFiniteSet(T) /\ Cardinality(T) \in Nat /\ (a <= b => Cardinality(T) <= b - a)
      BY StretchIsFinite, Zenon
    <3> QED
      BY <2>1, <3>1
  <2>3. lost = T
    BY <2>1, <2>4
  <2> HIDE DEF T, lost
  <2> QED
    BY <2>1, <2>2, <2>3
<1> HIDE DEF lost
<1>7. Cardinality(Undelivered(sent, new)) <= new.missed
  <2>1. /\ IsFiniteSet(Undelivered(sent, r)) /\ Cardinality(Undelivered(sent, r)) \in Nat
        /\ Cardinality(Undelivered(sent, new)) \in Nat
    BY <1>1, <1>3, UndeliveredIsFinite
  <2>2. /\ IsFiniteSet(Undelivered(sent, r) \cup lost)
        /\ Cardinality(Undelivered(sent, r) \cup lost) =
              Cardinality(Undelivered(sent, r)) + Cardinality(lost) - Cardinality(Undelivered(sent, r) \cap lost)
    BY <1>6, <2>1, FS_Union
  <2>3. Cardinality(Undelivered(sent, r) \cap lost) \in Nat
    BY <2>1, FS_Intersection, FS_CardinalityType
  <2>4. Cardinality(Undelivered(sent, new)) <= Cardinality(Undelivered(sent, r) \cup lost)
    BY <1>5, <2>2, FS_Subset
  <2> QED
    BY <1>1, <1>2, <1>3, <1>4, <1>6, <2>1, <2>2, <2>3, <2>4
<1> QED
  BY <1>1, <1>2, <1>3, <1>4, <1>7, OneViewer

LEMMA LogStep ==
    ASSUME RingHolds, StreamsHold, [LogNext]_logVars
    PROVE  RingHolds' /\ StreamsHold'
<1>0. ASSUME UNCHANGED <<ring, writePos, kept, lines>> PROVE RingHolds'
  BY <1>0 DEF RingHolds
<1>1. CASE LogLine
  <2>1. lines + 1 \in Nat /\ lines' = lines + 1
    BY <1>1 DEF LogLine, RingHolds
  <2>2. RingHolds'
    <3>1. CASE Push(lines + 1)
      BY <2>1, <3>1, PushKeeps
    <3>2. CASE UNCHANGED <<ring, writePos, kept>>
      BY <2>1, <3>2 DEF RingHolds
    <3> QED
      BY <1>1, <3>1, <3>2 DEF LogLine
  <2> QED
    BY <1>1, <2>1, <2>2, SendKeeps DEF LogLine
<1>2. CASE OtherEvent
  BY <1>0, <1>2, SendKeeps DEF OtherEvent
<1>3. ASSUME NEW v \in Viewers, NEW r \in ViewerStates, Set(v, r), r.at # "open"
      PROVE  RingHolds' /\ StreamsHold'
  BY <1>0, <1>3, OneViewer DEF Set
<1>4. ASSUME NEW v \in Viewers, OpenLogs(v) \/ CloseLogs(v) PROVE RingHolds' /\ StreamsHold'
  <2>1. PICK at \in {"closed", "connecting"} : Set(v, [Closed EXCEPT !.at = at])
    BY <1>4 DEF OpenLogs, CloseLogs, Closed
  <2>2. [Closed EXCEPT !.at = at] \in ViewerStates /\ [Closed EXCEPT !.at = at].at # "open"
    BY DEF Closed, ViewerStates
  <2> QED
    BY <1>3, <2>1, <2>2
<1>5. ASSUME NEW v \in Viewers, StreamOpens(v) PROVE RingHolds' /\ StreamsHold'
  <2> DEFINE new == [Closed EXCEPT !.at = "open", !.base = Len(sent) + 1, !.next = Len(sent) + 1]
  <2>1. Len(sent) \in Nat
    BY LenProperties DEF StreamsHold
  <2>2. /\ new \in ViewerStates /\ new.base = Len(sent) + 1 /\ new.next = Len(sent) + 1 /\ new.missed = 0
        /\ Undelivered(sent, new) = {}
    <3>1. PICK n \in Nat : n = Len(sent) + 1
      BY <2>1
    <3>2. new = [Closed EXCEPT !.at = "open", !.base = n, !.next = n]
      BY <3>1
    <3> HIDE DEF new
    <3>3. new \in ViewerStates /\ new.base = n /\ new.next = n /\ new.missed = 0
      BY <3>2 DEF Closed, ViewerStates
    <3>4. \A i \in n..(n - 1) : FALSE
      OBVIOUS
    <3>5. Undelivered(sent, new) = {}
      BY <3>3, <3>4 DEF Undelivered
    <3> QED
      BY <3>1, <3>3, <3>5
  <2>3. Set(v, new)
    BY <1>5 DEF StreamOpens
  <2> HIDE DEF new
  <2>4. StreamsHold'
    <3>1. Cardinality(Undelivered(sent, new)) = 0
      BY <2>2, FS_EmptySet
    <3> HIDE DEF StreamsHold
    <3>2. /\ 1 <= new.base /\ new.base <= new.next /\ new.next <= Len(sent) + 1
          /\ Cardinality(Undelivered(sent, new)) <= new.missed
      BY <2>1, <2>2, <3>1
    <3> QED
      BY <2>2, <2>3, <3>2, OneViewer
  <2> QED
    BY <1>0, <2>3, <2>4 DEF Set
<1>6. ASSUME NEW v \in Viewers, StreamBreaks(v) \/ WaitOver(v) PROVE RingHolds' /\ StreamsHold'
  <2>1. viewer[v].delay \in Nat /\ Longer(viewer[v].delay) \in Nat
    BY CapAssumption DEF StreamsHold, ViewerStates, Longer, Smaller
  <2>2. PICK at \in {"waiting", "connecting"}, d \in Nat : Set(v, [Closed EXCEPT !.at = at, !.delay = d])
    BY <1>6, <2>1 DEF StreamBreaks, WaitOver
  <2>3. [Closed EXCEPT !.at = at, !.delay = d] \in ViewerStates
        /\ [Closed EXCEPT !.at = at, !.delay = d].at # "open"
    BY DEF Closed, ViewerStates
  <2> QED
    BY <1>3, <2>2, <2>3
<1>7. ASSUME NEW v \in Viewers, Receive(v) PROVE RingHolds' /\ StreamsHold'
  BY <1>0, <1>7, ReceiveKeeps DEF Receive, Set
<1>8. ASSUME NEW v \in Viewers, Lagged(v) PROVE RingHolds' /\ StreamsHold'
  BY <1>0, <1>8, LagKeeps DEF Lagged, Set
<1>9. CASE UNCHANGED logVars
  BY <1>9 DEF logVars, RingHolds, StreamsHold
<1> QED
  BY <1>1, <1>2, <1>4, <1>5, <1>6, <1>7, <1>8, <1>9 DEF LogNext

(* For any capacity of the ring and of the channel, however often both     *)
(* have come round and however far behind a reader fell: the history is    *)
(* the last lines kept, in order, and a stream has delivered, or said that *)
(* it missed, every line it has gone past.                                 *)
THEOREM LogIsAccountedFor == LogSpec => []NothingLostSilently
<1>1. LogInit => RingHolds /\ StreamsHold
  <2>1. LogInit => RingHolds
    BY CapAssumption, EmptySeq DEF LogInit, RingHolds
  <2>2. Closed \in ViewerStates /\ Closed.at # "open"
    BY DEF Closed, ViewerStates
  <2>3. LogInit => StreamsHold
    BY <2>2, EmptySeq DEF LogInit, StreamsHold
  <2> QED
    BY <2>1, <2>3
<1>2. RingHolds /\ StreamsHold => NothingLostSilently
  BY RingReads DEF NothingLostSilently, StreamAccountsForAll, StreamsHold, Undelivered
<1> QED
  BY <1>1, <1>2, LogStep, PTL DEF LogSpec

-----------------------------------------------------------------------------
(* The tray and the status window.                                         *)

PollerStates == [at : {"off", "poll", "tray", "watch"}, old : States, enters : BOOLEAN]
TrayCommands == [state : States, by : {"poller", "click"}]

FeedTypes ==
    /\ tunnel \in States /\ watch \in States
    /\ poller \in [Pollers -> PollerStates]
    /\ \A p \in Pollers : poller[p].at = "off" => poller[p].old = "Disconnected"
    /\ queue \in Seq(TrayCommands) /\ shown \in TrayCommands

On(p) == poller[p].at # "off"

(* What the tray will show once it has read its channel.                   *)
LastTold == IF queue = <<>> THEN shown ELSE queue[Len(queue)]

(* A state on show is the one the programs begin with, or some poller has  *)
(* it for its old_state, or some poller is about to tell another: `about`  *)
(* says where a poller is until it has.                                    *)
Vouched(s, about) ==
    \/ (\A p \in Pollers : ~On(p)) /\ s = "Disconnected"
    \/ \E p \in Pollers : On(p) /\ (poller[p].at \in about \/ poller[p].old = s)

FeedInv ==
    /\ FeedTypes
    /\ Vouched(watch, {"tray", "watch"})
    /\ LastTold.by = "poller" => Vouched(LastTold.state, {"tray"})

(* A command sent is the last one, and the tray takes none but the first.  *)
LEMMA SentIsLast ==
    ASSUME FeedTypes, NEW s \in States, NEW who \in {"poller", "click"}, Send(s, who)
    PROVE  /\ queue' \in Seq(TrayCommands)
           /\ LastTold' = [state |-> s, by |-> who]
<1>1. [state |-> s, by |-> who] \in TrayCommands
  BY DEF TrayCommands
<1> PICK c \in TrayCommands : c = [state |-> s, by |-> who]
  BY <1>1
<1>2. queue' = Append(queue, c) /\ queue \in Seq(TrayCommands)
  BY DEF Send, FeedTypes
<1>3. /\ queue' \in Seq(TrayCommands) /\ Len(queue') = Len(queue) + 1
      /\ queue'[Len(queue) + 1] = c /\ Len(queue) \in Nat
  BY <1>2, AppendProperties, LenProperties
<1>4. queue' # <<>>
  BY <1>3
<1> QED
  BY <1>3, <1>4 DEF LastTold

LEMMA TakenLeavesLast ==
    ASSUME FeedTypes, TrayTakes
    PROVE  queue' \in Seq(TrayCommands) /\ shown' \in TrayCommands /\ LastTold' = LastTold
<1>1. queue \in Seq(TrayCommands) /\ queue # <<>> /\ shown' = Head(queue) /\ queue' = Tail(queue)
  BY DEF TrayTakes, FeedTypes
<1>2. PICK n \in Nat : n = Len(queue) /\ n > 0
  BY <1>1, LenProperties, EmptySeq
<1>3. /\ queue' \in Seq(TrayCommands) /\ Len(queue') = n - 1
      /\ \A i \in 1..(n - 1) : queue'[i] = queue[i + 1]
  BY <1>1, <1>2, HeadTailProperties
<1>4. shown' = queue[1] /\ shown' \in TrayCommands
  BY <1>1, <1>2, HeadTailProperties, ElementOfSeq
<1>5. CASE n = 1
  <2>1. queue' = <<>>
    BY <1>3, <1>5, EmptySeq
  <2> QED
    BY <1>1, <1>2, <1>3, <1>4, <1>5, <2>1 DEF LastTold
<1>6. CASE n > 1
  <2>1. n - 1 \in 1..(n - 1) /\ queue'[n - 1] = queue[n] /\ queue' # <<>>
    BY <1>2, <1>3, <1>6
  <2> QED
    BY <1>1, <1>2, <1>3, <1>4, <2>1 DEF LastTold
<1> QED
  BY <1>2, <1>3, <1>4, <1>5, <1>6

LEMMA PollingKeeps ==
    ASSUME FeedInv, NEW p \in Pollers,
           StartPolling(p) \/ (\E s \in States : Seen(p, s))
    PROVE  FeedInv'
<1>1. PICK q \in PollerStates :
         /\ poller' = [poller EXCEPT ![p] = q]
         /\ q.at # "off"
         /\ \/ poller[p].at = "off" /\ q.old = "Disconnected"
            \/ poller[p].at = "poll" /\ (q.at = "tray" \/ q.old = poller[p].old)
  <2>1. poller[p] \in PollerStates /\ (poller[p].at = "off" => poller[p].old = "Disconnected")
    BY DEF FeedInv, FeedTypes
  <2>2. CASE StartPolling(p)
    <3> DEFINE q == [poller[p] EXCEPT !.at = "poll"]
    <3>1. q \in PollerStates /\ q.at # "off" /\ q.old = poller[p].old
      BY <2>1 DEF PollerStates
    <3> QED
      BY <2>1, <2>2, <3>1 DEF StartPolling
  <2>3. ASSUME NEW s \in States, Seen(p, s)
        PROVE  \E q \in PollerStates :
                  /\ poller' = [poller EXCEPT ![p] = q] /\ q.at # "off"
                  /\ poller[p].at = "poll" /\ (q.at = "tray" \/ q.old = poller[p].old)
    <3> DEFINE q == [at |-> IF IsNews(p, s) THEN "tray" ELSE "poll", old |-> s,
                     enters |-> IsNews(p, s) /\ s = "Mfa" /\ poller[p].old # "Mfa"]
    <3>1. q \in PollerStates /\ q.at # "off" /\ (q.at = "tray" \/ q.old = poller[p].old)
      BY <2>1 DEF PollerStates, IsNews
    <3>2. poller[p].at = "poll" /\ poller' = [poller EXCEPT ![p] = q]
      BY <2>3 DEF Seen
    <3> QED
      BY <3>1, <3>2
  <2> QED
    BY <2>2, <2>3
<1>2. poller'[p] = q /\ \A o \in Pollers \ {p} : poller'[o] = poller[o]
  BY <1>1 DEF FeedInv, FeedTypes
<1>3. UNCHANGED <<tunnel, queue, shown, watch>>
  BY DEF StartPolling, Seen
<1>4. ASSUME NEW s, NEW about, "tray" \in about, "poll" \notin about, Vouched(s, about)
      PROVE  Vouched(s, about)'
  <2>1. CASE poller[p].at = "off"
    BY <1>1, <1>2, <1>4, <2>1 DEF Vouched, On
  <2>2. CASE poller[p].at = "poll"
    BY <1>1, <1>2, <1>4, <2>2 DEF Vouched, On
  <2> QED
    BY <1>1, <2>1, <2>2
<1>5. FeedTypes'
  BY <1>1, <1>2, <1>3 DEF FeedInv, FeedTypes
<1>6. LastTold' = LastTold
  BY <1>3 DEF LastTold
<1>7. Vouched(watch, {"tray", "watch"})'
  BY <1>3, <1>4 DEF FeedInv, Vouched
<1>8. LastTold'.by = "poller" => Vouched(LastTold.state, {"tray"})'
  <2> SUFFICES ASSUME LastTold.by = "poller" PROVE Vouched(LastTold.state, {"tray"})'
    BY <1>6
  <2> QED
    BY <1>4, <1>6 DEF FeedInv, Vouched
<1> QED
  BY <1>5, <1>6, <1>7, <1>8 DEF FeedInv

LEMMA TellTrayKeeps ==
    ASSUME FeedInv, NEW p \in Pollers, TellTray(p)
    PROVE  FeedInv'
<1>1. /\ poller[p] \in PollerStates /\ poller[p].at = "tray"
      /\ poller' = [poller EXCEPT ![p].at = "watch"]
      /\ UNCHANGED <<tunnel, shown, watch>>
  BY DEF FeedInv, FeedTypes, TellTray
<1>2. /\ poller'[p] \in PollerStates /\ poller'[p].at = "watch" /\ poller'[p].old = poller[p].old
      /\ \A o \in Pollers \ {p} : poller'[o] = poller[o]
      /\ poller' \in [Pollers -> PollerStates]
  BY <1>1 DEF FeedInv, FeedTypes, PollerStates
<1>3. PICK s \in States : s = poller[p].old
  BY <1>1 DEF PollerStates
<1>4. queue' \in Seq(TrayCommands) /\ LastTold' = [state |-> s, by |-> "poller"]
  BY <1>3, SentIsLast DEF FeedInv, TellTray
<1>5. FeedTypes'
  BY <1>1, <1>2, <1>4 DEF FeedInv, FeedTypes
<1>6. Vouched(watch, {"tray", "watch"})'
  BY <1>1, <1>2 DEF Vouched, On
<1>7. \A about : Vouched(s, about)'
  BY <1>2, <1>3 DEF Vouched, On
<1> QED
  BY <1>4, <1>5, <1>6, <1>7 DEF FeedInv, Vouched

LEMMA TellWatchKeeps ==
    ASSUME FeedInv, NEW p \in Pollers, TellWatch(p)
    PROVE  FeedInv'
<1>1. /\ poller[p] \in PollerStates /\ poller[p].at = "watch" /\ watch' = poller[p].old
      /\ poller' = [poller EXCEPT ![p].at = "poll", ![p].enters = FALSE]
      /\ UNCHANGED <<tunnel, queue, shown>>
  BY DEF FeedInv, FeedTypes, TellWatch
<1>2. /\ poller'[p] \in PollerStates /\ poller'[p].at = "poll" /\ poller'[p].old = poller[p].old
      /\ \A o \in Pollers \ {p} : poller'[o] = poller[o]
      /\ poller' \in [Pollers -> PollerStates] /\ watch' \in States
  BY <1>1 DEF FeedInv, FeedTypes, PollerStates
<1>3. FeedTypes'
  BY <1>1, <1>2 DEF FeedInv, FeedTypes
<1>4. Vouched(watch, {"tray", "watch"})'
  BY <1>1, <1>2 DEF Vouched, On
<1>5. \A s : Vouched(s, {"tray"}) => Vouched(s, {"tray"})'
  BY <1>1, <1>2 DEF Vouched, On
<1>6. LastTold' = LastTold
  BY <1>1 DEF LastTold
<1> QED
  BY <1>3, <1>4, <1>5, <1>6 DEF FeedInv, Vouched

(* What a click tells is no poller's word.                                 *)
LEMMA ClickKeeps ==
    ASSUME FeedInv, UNCHANGED <<tunnel, poller, shown, watch>>,
           (\E s \in States : Send(s, "click")) \/ UNCHANGED queue
    PROVE  FeedInv'
<1>1. CASE \E s \in States : Send(s, "click")
  <2>1. PICK s \in States : Send(s, "click")
    BY <1>1
  <2>2. queue' \in Seq(TrayCommands) /\ LastTold' = [state |-> s, by |-> "click"]
    BY <2>1, SentIsLast DEF FeedInv
  <2>3. FeedTypes'
    BY <2>2 DEF FeedInv, FeedTypes
  <2> QED
    BY <2>2, <2>3 DEF FeedInv, Vouched, On
<1>2. CASE UNCHANGED queue
  BY <1>2 DEF FeedInv, FeedTypes, LastTold, Vouched, On
<1> QED
  BY <1>1, <1>2

LEMMA FeedStep ==
    ASSUME FeedInv, [FeedNext]_feedVars
    PROVE  FeedInv'
<1>0. tunnel \in States /\ "up" \in States /\ "Disconnected" \in States
  BY DEF FeedInv, FeedTypes, States
<1>1. ASSUME NEW s \in States, TunnelMoves(s) PROVE FeedInv'
  BY <1>1 DEF TunnelMoves, FeedInv, FeedTypes, LastTold, Vouched, On
<1>2. CASE TrayTakes
  <2>1. FeedTypes' /\ LastTold' = LastTold
    BY <1>2, TakenLeavesLast DEF TrayTakes, FeedInv, FeedTypes
  <2> QED
    BY <1>2, <2>1 DEF TrayTakes, FeedInv, Vouched, On
<1>3. ASSUME NEW p \in Pollers, StartPolling(p) \/ PollAnswered(p) \/ PollFailed(p) PROVE FeedInv'
  BY <1>0, <1>3, PollingKeeps DEF PollAnswered, PollFailed
<1>4. ASSUME NEW p \in Pollers, TellTray(p) \/ TellWatch(p) PROVE FeedInv'
  BY <1>4, TellTrayKeeps, TellWatchKeeps
<1>5. ASSUME NEW m \in Prompts, OpenPrompt(m) \/ Answer(m) \/ Dismiss(m) \/ SubmitCode(m)
      PROVE  FeedInv'
  BY <1>5, ClickKeeps DEF OpenPrompt, Answer, Dismiss, SubmitCode, PromptGoes
<1>6. ASSUME NEW u \in Clicks, \/ ClickConnect(u) \/ ConnectAnswered(u)
                                \/ ClickDisconnect(u) \/ DisconnectAnswered(u)
      PROVE  FeedInv'
  BY <1>0, <1>6, ClickKeeps DEF ClickConnect, ConnectAnswered, ClickDisconnect, DisconnectAnswered
<1>7. CASE UNCHANGED feedVars
  BY <1>7 DEF feedVars, FeedInv, FeedTypes, LastTold, Vouched, On
<1> QED
  BY <1>1, <1>2, <1>3, <1>4, <1>5, <1>6, <1>7 DEF FeedNext

(* What every poller has seen last: somebody is logged in, all of them are *)
(* between two polls, and all have the same answer for their old_state.    *)
PollersAgreeOn(s) ==
    /\ \E p \in Pollers : On(p)
    /\ \A p \in Pollers : On(p) => poller[p].at = "poll" /\ poller[p].old = s

(* The status window shows what the pollers agree on, and so does the tray *)
(* once it has read its channel, unless a click has told it something      *)
(* after them.                                                             *)
ShownAsSeen ==
    \A s \in States : PollersAgreeOn(s) =>
        watch = s /\ (queue = <<>> /\ shown.by = "poller" => shown.state = s)

(* For any number of logins, prompts and clicks and any capacity of the    *)
(* channel, and however the pollers' messages overtake one another:        *)
(* pollers that agree have not left an answer of another on show (main.rs  *)
(* start_status_polling). It is what StatusEventuallyTrue rests on, once   *)
(* the pollers come to agree with the server.                              *)
THEOREM AgreedAnswerIsShown == FeedSpec => []ShownAsSeen
<1>1. FeedInit => FeedInv
  <2> SUFFICES ASSUME FeedInit PROVE FeedInv
    OBVIOUS
  <2>1. queue \in Seq(TrayCommands) /\ shown \in TrayCommands
    BY EmptySeq DEF FeedInit, TrayCommands, States
  <2>2. [at |-> "off", old |-> "Disconnected", enters |-> FALSE] \in PollerStates
    BY DEF PollerStates, States
  <2>3. FeedTypes
    BY <2>1, <2>2 DEF FeedInit, FeedTypes, States
  <2> QED
    BY <2>3 DEF FeedInit, FeedInv, LastTold, Vouched, On
<1>2. FeedInv => ShownAsSeen
  <2> SUFFICES ASSUME FeedInv, NEW s \in States, PollersAgreeOn(s)
               PROVE  watch = s /\ (queue = <<>> /\ shown.by = "poller" => shown.state = s)
    BY DEF ShownAsSeen
  <2>1. \A t, about : "poll" \notin about /\ Vouched(t, about) => t = s
    BY DEF PollersAgreeOn, Vouched
  <2>2. watch = s
    BY <2>1 DEF FeedInv
  <2>3. ASSUME queue = <<>>, shown.by = "poller" PROVE shown.state = s
    BY <2>1, <2>3 DEF FeedInv, LastTold
  <2> QED
    BY <2>2, <2>3
<1> QED
  BY <1>1, <1>2, FeedStep, PTL DEF FeedSpec

-----------------------------------------------------------------------------
(* A profile's form.                                                       *)

(* What is assumed of the sizes.                                           *)
LEMMA FormSizes ==
    /\ "" \in Texts /\ MaxList \in Nat /\ MaxNumber \in Nat
    /\ Lowest \in Nat /\ Highest \in 0..MaxNumber /\ DefaultNumber \in Lowest..Highest
BY FormAssumption, Zenon

LEMMA NumbersOfForm ==
    /\ MaxNumber \in Nat /\ Lowest \in Nat /\ Highest \in Nat /\ DefaultNumber \in Nat
    /\ Lowest <= DefaultNumber /\ DefaultNumber <= Highest /\ Highest <= MaxNumber
<1>1. MaxNumber \in Nat /\ Lowest \in Nat
  BY FormSizes, Zenon
<1>2. Highest \in 0..MaxNumber
  BY FormSizes, Zenon
<1>3. Highest \in Nat /\ Highest <= MaxNumber
  BY <1>1, <1>2
<1>4. DefaultNumber \in Lowest..Highest
  BY FormSizes, Zenon
<1> QED
  BY <1>1, <1>3, <1>4

(* Induction, on sets of numbers.                                          *)
LEMMA AllNumbers ==
    ASSUME NEW S \in SUBSET Nat, 0 \in S, \A n \in S : n + 1 \in S
    PROVE  S = Nat
<1> DEFINE T == Nat \ S
           R == OpToRel(<, Nat)
<1>1. SUFFICES ASSUME T # {} PROVE FALSE
  OBVIOUS
<1>2. PICK n \in T : \A m \in T : ~(<<m, n>> \in R)
  <2> HIDE DEF T, R
  <2>1. IsWellFoundedOn(R, Nat) /\ T \subseteq Nat
    BY NatLessThanWellFounded DEF R, T
  <2> QED
    BY <1>1, <2>1, WFMin
<1>3. n \in Nat /\ n # 0
  BY <1>2
<1>4. n - 1 \in Nat /\ n - 1 < n
  BY <1>3
<1>5. <<n - 1, n>> \in R
  BY <1>3, <1>4 DEF OpToRel
<1>6. n - 1 \in S
  BY <1>2, <1>4, <1>5
<1>7. n - 1 + 1 = n
  BY <1>3
<1> QED
  BY <1>2, <1>6, <1>7

Words == Texts \ {""}

(* What parse_comma_list keeps of the first n entries, parsed being what   *)
(* it keeps of fewer.                                                      *)
Keeps(s, parsed, n) ==
    IF n = 0 THEN <<>>
    ELSE IF s[n] = "" THEN parsed[n - 1]
    ELSE Append(parsed[n - 1], s[n])

LEMMA KeptExists ==
    ASSUME NEW s, NEW L \in Nat
    PROVE  \E parsed : parsed = [n \in 0..L |-> Keeps(s, parsed, n)]
<1> DEFINE S == {l \in Nat : \E parsed : parsed = [n \in 0..l |-> Keeps(s, parsed, n)]}
<1>1. 0 \in S
  <2> DEFINE f == [n \in 0..0 |-> <<>>]
  <2>1. f = [n \in 0..0 |-> Keeps(s, f, n)]
    BY DEF Keeps
  <2> HIDE DEF f
  <2> QED
    BY <2>1
<1>2. ASSUME NEW l \in S PROVE l + 1 \in S
  <2>1. PICK f : f = [n \in 0..l |-> Keeps(s, f, n)]
    OBVIOUS
  <2>2. l \in Nat
    OBVIOUS
  <2> HIDE DEF S
  <2> DEFINE g == [n \in 0..(l + 1) |-> IF n = l + 1 THEN Keeps(s, f, n) ELSE f[n]]
  <2>3. \A n \in 0..l : g[n] = f[n] /\ f[n] = Keeps(s, f, n)
    BY <2>1, <2>2
  <2>4. ASSUME NEW n \in 0..(l + 1) PROVE g[n] = Keeps(s, g, n)
    <3>1. Keeps(s, g, n) = Keeps(s, f, n)
      <4>1. CASE n = 0
        BY <4>1 DEF Keeps
      <4>2. CASE n # 0
        <5>1. n - 1 \in 0..l
          BY <2>2, <4>2
        <5>2. g[n - 1] = f[n - 1]
          BY <2>3, <5>1
        <5> HIDE DEF g
        <5> QED
          BY <5>2 DEF Keeps
      <4> QED
        BY <4>1, <4>2
    <3>2. g[n] = Keeps(s, f, n)
      <4>1. CASE n = l + 1
        BY <4>1
      <4>2. CASE n # l + 1
        <5>1. n \in 0..l
          BY <2>2, <4>2
        <5> QED
          BY <2>3, <5>1
      <4> QED
        BY <4>1, <4>2
    <3> HIDE DEF g
    <3> QED
      BY <3>1, <3>2
  <2>5. g = [n \in 0..(l + 1) |-> Keeps(s, g, n)]
    <3>1. g = [n \in 0..(l + 1) |-> g[n]]
      OBVIOUS
    <3> HIDE DEF g
    <3> QED
      BY <2>4, <3>1
  <2> HIDE DEF g
  <2>6. l + 1 \in Nat
    BY <2>2
  <2> QED
    BY <2>5, <2>6 DEF S
<1>3. S = Nat
  <2>1. S \in SUBSET Nat
    OBVIOUS
  <2> HIDE DEF S
  <2> QED
    BY <1>1, <1>2, <2>1, AllNumbers
<1>4. L \in S
  BY <1>3
<1> QED
  BY <1>4

LEMMA ParseSteps ==
    ASSUME NEW s, Len(s) \in Nat
    PROVE  \E parsed : /\ ParseCommaList(s) = parsed[Len(s)]
                       /\ \A n \in 0..Len(s) : parsed[n] = Keeps(s, parsed, n)
<1> DEFINE f == CHOOSE parsed : parsed = [n \in 0..Len(s) |-> Keeps(s, parsed, n)]
<1>1. f = [n \in 0..Len(s) |-> Keeps(s, f, n)]
  <2>1. \E parsed : parsed = [n \in 0..Len(s) |-> Keeps(s, parsed, n)]
    BY KeptExists
  <2> QED
    BY <2>1
<1>2. ParseCommaList(s) = f[Len(s)]
  BY DEF ParseCommaList, Keeps
<1> HIDE DEF f
<1>3. \A n \in 0..Len(s) : f[n] = Keeps(s, f, n)
  BY <1>1
<1> QED
  BY <1>2, <1>3

(* No entry of what is kept is empty, and a list without empty entries is  *)
(* kept as it is.                                                          *)
LEMMA ParsedIsClean ==
    ASSUME NEW s \in Seq(Texts)
    PROVE  ParseCommaList(s) \in Seq(Words) /\ Len(ParseCommaList(s)) <= Len(s)
<1>0. Len(s) \in Nat
  OBVIOUS
<1>1. PICK parsed : /\ ParseCommaList(s) = parsed[Len(s)]
                    /\ \A n \in 0..Len(s) : parsed[n] = Keeps(s, parsed, n)
  BY <1>0, ParseSteps
<1> DEFINE Fits(n) == parsed[n] \in Seq(Words) /\ Len(parsed[n]) <= n
           S == {n \in Nat : n <= Len(s) => Fits(n)}
<1>2. 0 \in S
  <2>1. parsed[0] = <<>>
    <3>1. 0 \in 0..Len(s)
      BY <1>0
    <3> QED
      BY <1>1, <3>1 DEF Keeps
  <2>2. <<>> \in Seq(Words) /\ Len(<<>>) = 0
    OBVIOUS
  <2>3. Len(parsed[0]) = 0
    BY <2>1, <2>2, Zenon
  <2>4. Fits(0)
    BY <2>1, <2>2, <2>3
  <2> HIDE DEF Fits
  <2> QED
    BY <2>4
<1>3. ASSUME NEW n \in S PROVE n + 1 \in S
  <2> SUFFICES ASSUME n + 1 <= Len(s) PROVE Fits(n + 1)
    OBVIOUS
  <2>1. n \in Nat /\ Fits(n)
    BY <1>0
  <2> HIDE DEF S
  <2>2. n + 1 \in 0..Len(s) /\ n + 1 # 0 /\ (n + 1) - 1 = n /\ s[n + 1] \in Texts
    BY <1>0, <2>1
  <2>3. parsed[n + 1] = IF s[n + 1] = "" THEN parsed[n] ELSE Append(parsed[n], s[n + 1])
    BY <1>1, <2>2 DEF Keeps
  <2>4. CASE s[n + 1] = ""
    <3>1. parsed[n + 1] = parsed[n]
      BY <2>3, <2>4
    <3>2. PICK k \in Seq(Words) : k = parsed[n] /\ Len(k) <= n
      BY <2>1
    <3>3. Len(k) \in Nat /\ Len(k) <= n + 1
      BY <2>1, <3>2
    <3> QED
      BY <3>1, <3>2, <3>3
  <2>5. CASE s[n + 1] # ""
    <3>1. s[n + 1] \in Words
      BY <2>2, <2>5 DEF Words
    <3>2. PICK k \in Seq(Words) : k = parsed[n] /\ Len(k) <= n
      BY <2>1
    <3>3. Append(k, s[n + 1]) \in Seq(Words) /\ Len(Append(k, s[n + 1])) = Len(k) + 1
      BY <3>1
    <3>4. Len(k) \in Nat /\ Len(k) + 1 <= n + 1
      BY <2>1, <3>2
    <3> QED
      BY <2>3, <2>5, <3>2, <3>3, <3>4
  <2> QED
    BY <2>4, <2>5
<1>4. S = Nat
  <2>1. S \in SUBSET Nat
    OBVIOUS
  <2> HIDE DEF S
  <2> QED
    BY <1>2, <1>3, <2>1, AllNumbers
<1> QED
  BY <1>0, <1>1, <1>4

LEMMA CleanIsKept ==
    ASSUME NEW s \in Seq(Words)
    PROVE  ParseCommaList(s) = s
<1>0. Len(s) \in Nat
  OBVIOUS
<1>1. PICK parsed : /\ ParseCommaList(s) = parsed[Len(s)]
                    /\ \A n \in 0..Len(s) : parsed[n] = Keeps(s, parsed, n)
  BY <1>0, ParseSteps
<1> DEFINE Upto(n) == [i \in 1..n |-> s[i]]
           S == {n \in Nat : n <= Len(s) => parsed[n] = Upto(n)}
<1>2. 0 \in S
  <2>1. parsed[0] = <<>>
    <3>1. 0 \in 0..Len(s)
      BY <1>0
    <3> QED
      BY <1>1, <3>1 DEF Keeps
  <2>2. Upto(0) = <<>>
    OBVIOUS
  <2> QED
    BY <2>1, <2>2
<1>3. ASSUME NEW n \in S PROVE n + 1 \in S
  <2> SUFFICES ASSUME n + 1 <= Len(s) PROVE parsed[n + 1] = Upto(n + 1)
    OBVIOUS
  <2>1. n \in Nat /\ parsed[n] = Upto(n)
    BY <1>0
  <2> HIDE DEF S
  <2>2. n + 1 \in 0..Len(s) /\ n + 1 # 0 /\ (n + 1) - 1 = n /\ s[n + 1] \in Words
    BY <1>0, <2>1
  <2>3. parsed[n + 1] = Append(Upto(n), s[n + 1])
    <3>1. s[n + 1] # ""
      BY <2>2 DEF Words
    <3> QED
      BY <1>1, <2>1, <2>2, <3>1 DEF Keeps
  <2>4. Upto(n) \in Seq(Words) /\ Len(Upto(n)) = n
    <3>1. \A i \in 1..n : s[i] \in Words
      BY <1>0, <2>1
    <3>2. Upto(n) \in [1..n -> Words]
      BY <3>1
    <3> HIDE DEF Upto
    <3> QED
      BY <2>1, <3>2
  <2>5. Append(Upto(n), s[n + 1]) = Upto(n + 1)
    BY <2>1, <2>2, <2>4
  <2> QED
    BY <2>3, <2>5
<1>4. S = Nat
  <2>1. S \in SUBSET Nat
    OBVIOUS
  <2> HIDE DEF S
  <2> QED
    BY <1>2, <1>3, <2>1, AllNumbers
<1>5. parsed[Len(s)] = Upto(Len(s))
  <2>1. \A n \in S : n <= Len(s) => parsed[n] = Upto(n)
    OBVIOUS
  <2> HIDE DEF S, Upto
  <2> QED
    BY <1>0, <1>4, <2>1
<1>6. Upto(Len(s)) = s
  OBVIOUS
<1> QED
  BY <1>1, <1>5, <1>6

LEMMA ListsMeanTheSame ==
    ASSUME NEW v \in Values("list")
    PROVE  Resaved("list", v) = Meaning("list", v)
<1>1. Missing \notin Given("list")
  BY FormAssumption DEF Kinds
<1>2. CASE v = Missing
  <2>1. Show("list", v) = <<>>
    BY <1>2 DEF Show, Default
  <2>2. ParseCommaList(<<>>) = <<>>
    <3>1. <<>> \in Seq(Words)
      OBVIOUS
    <3> QED
      BY <3>1, CleanIsKept
  <2> QED
    BY <1>2, <2>1, <2>2 DEF Resaved, ToJson, Meaning
<1>3. CASE v # Missing
  <2>1. v \in Given("list")
    BY <1>3 DEF Values
  <2>2. PICK n \in 0..MaxList : v \in [1..n -> Texts]
    BY <2>1 DEF Given
  <2>3. v \in Seq(Texts)
    <3>0. MaxList \in Nat
      BY FormSizes, Zenon
    <3>1. n \in Nat
      BY <3>0
    <3> QED
      BY <2>2, <3>1
  <2>4. PICK w : w = ParseCommaList(v)
    OBVIOUS
  <2>5. w \in Seq(Words) /\ ParseCommaList(w) = w /\ Len(w) <= Len(v)
    BY <2>3, <2>4, ParsedIsClean, CleanIsKept
  <2>6. Show("list", v) = v
    BY <1>3 DEF Show
  <2>7. Meaning("list", v) = w
    BY <1>3, <2>4 DEF Meaning
  <2>8. ToJson("list", v) = IF w = <<>> THEN Missing ELSE w
    BY <2>4 DEF ToJson
  <2>9. CASE w = <<>>
    <3>1. Resaved("list", v) = Meaning("list", Missing)
      BY <2>6, <2>8, <2>9 DEF Resaved
    <3> QED
      BY <2>7, <2>9, <3>1 DEF Meaning
  <2>10. CASE w # <<>>
    <3>1. Resaved("list", v) = Meaning("list", w)
      BY <2>6, <2>8, <2>10 DEF Resaved
    <3>2. Meaning("list", w) = IF w = Missing THEN <<>> ELSE w
      BY <2>5 DEF Meaning
    <3>3. w # Missing
      <4>0. MaxList \in Nat
        BY FormSizes, Zenon
      <4>1. Len(v) = n
        BY <2>2, <4>0
      <4>2. Len(w) \in 0..MaxList
        BY <2>5, <4>0, <4>1
      <4>3. w \in [1..Len(w) -> Words]
        BY <2>5
      <4>4. w \in [1..Len(w) -> Texts]
        BY <4>3 DEF Words
      <4>5. w \in Given("list")
        BY <4>2, <4>4 DEF Given
      <4> QED
        BY <1>1, <4>5
    <3> QED
      BY <2>7, <3>1, <3>2, <3>3
  <2> QED
    BY <2>9, <2>10
<1> QED
  BY <1>2, <1>3

(* Which values of the other kinds mean something else once saved.         *)
Alters(kind, v) == Resaved(kind, v) # Meaning(kind, v)

LEMMA SimpleValues ==
    /\ \A v \in Values("flag") : ~Alters("flag", v)
    /\ \A v \in Values("text") : ~Alters("text", v)
    /\ \A v \in Values("optional") : Alters("optional", v) <=> v = ""
    /\ \A v \in Values("choice") : Alters("choice", v) <=> v \in Texts \ Offered
<1>1. \A kind \in Kinds : Missing \notin Given(kind)
  BY FormAssumption
<1>2. \A v \in Values("flag") : ~Alters("flag", v)
  <2>1. Missing \notin BOOLEAN
    <3>1. Given("flag") = BOOLEAN
      BY DEF Given
    <3> QED
      BY <1>1, <3>1 DEF Kinds
  <2>2. ASSUME NEW v \in Values("flag") PROVE Resaved("flag", v) = Meaning("flag", v)
    <3>1. v \in BOOLEAN \cup {Missing}
      BY DEF Values, Given
    <3>2. Show("flag", v) = IF v = Missing THEN FALSE ELSE v
      BY DEF Show, Default
    <3>3. \A x : ToJson("flag", x) = x
      BY DEF ToJson
    <3>4. \A x : Meaning("flag", x) = IF x = Missing THEN FALSE ELSE x
      BY DEF Meaning, Default
    <3> QED
      BY <2>1, <3>1, <3>2, <3>3, <3>4 DEF Resaved
  <2> QED
    BY <2>2 DEF Alters
<1>3. \A v \in Values("text") : ~Alters("text", v)
  <2>1. Missing \notin Texts
    BY <1>1 DEF Given, Kinds
  <2>2. ASSUME NEW v \in Values("text") PROVE Resaved("text", v) = Meaning("text", v)
    <3>1. v \in Texts \cup {Missing}
      BY DEF Values, Given
    <3>2. Show("text", v) = IF v = Missing THEN "" ELSE v
      BY DEF Show, Default
    <3>3. \A x : ToJson("text", x) = IF x = "" THEN Missing ELSE x
      BY DEF ToJson
    <3>4. \A x : Meaning("text", x) = IF x = Missing THEN "" ELSE x
      BY DEF Meaning, Default
    <3> QED
      BY <2>1, <3>1, <3>2, <3>3, <3>4 DEF Resaved
  <2> QED
    BY <2>2 DEF Alters
<1>4. \A v \in Values("optional") : Alters("optional", v) <=> v = ""
  <2>1. Missing \notin Texts /\ "" \in Texts
    BY <1>1, FormSizes DEF Given, Kinds
  <2>2. ASSUME NEW v \in Values("optional") PROVE Alters("optional", v) <=> v = ""
    <3>1. v \in Texts \cup {Missing}
      BY DEF Values, Given
    <3>2. Show("optional", v) = IF v = Missing THEN "" ELSE v
      BY DEF Show, Default
    <3>3. \A x : ToJson("optional", x) = IF x = "" THEN Missing ELSE x
      BY DEF ToJson
    <3>4. \A x : Meaning("optional", x) = x
      BY DEF Meaning
    <3>5. CASE v = Missing
      BY <2>1, <3>2, <3>3, <3>4, <3>5 DEF Alters, Resaved
    <3>6. CASE v = ""
      <4>1. Show("optional", v) = "" /\ Missing # ""
        BY <2>1, <3>2, <3>6
      <4>2. Resaved("optional", v) = Missing
        BY <3>3, <3>4, <4>1 DEF Resaved
      <4>3. Meaning("optional", v) = ""
        BY <3>4, <3>6
      <4> QED
        BY <3>6, <4>1, <4>2, <4>3 DEF Alters
    <3>7. CASE v # Missing /\ v # ""
      BY <2>1, <3>2, <3>3, <3>4, <3>7 DEF Alters, Resaved
    <3> QED
      BY <3>5, <3>6, <3>7
  <2> QED
    BY <2>2
<1>5. \A v \in Values("choice") : Alters("choice", v) <=> v \in Texts \ Offered
  BY <1>1 DEF Values, Given, Alters, Resaved, Meaning, ToJson, Show, Default, Kinds, Offered
<1> QED
  BY <1>2, <1>3, <1>4, <1>5

LEMMA NumberValues ==
    /\ \A v \in Values("number") :
          Alters("number", v) <=> v \in {n \in 0..MaxNumber : n \notin Lowest..Highest}
    /\ \A v \in Values("lease") :
          Alters("lease", v) <=> v \in {n \in 0..MaxNumber : n = 0 \/ n > Highest}
<1>1. Missing \notin 0..MaxNumber
  <2>1. Missing \notin Given("number")
    BY FormAssumption DEF Kinds
  <2> QED
    BY <2>1 DEF Given
<1>2. ASSUME NEW v \in Values("number")
      PROVE  Alters("number", v) <=> v \in {n \in 0..MaxNumber : n \notin Lowest..Highest}
  <2>1. CASE v = Missing
    BY <1>1, <2>1 DEF Alters, Resaved, Meaning, ToJson, Show, Default
  <2>2. CASE v \in 0..MaxNumber
    <3>1. Alters("number", v) <=> Clamped(v, Lowest) # v
      <4>1. Show("number", v) = Clamped(v, Lowest)
        BY <1>1, <2>2 DEF Show
      <4>2. Clamped(v, Lowest) # Missing
        BY <1>1, <2>2, NumbersOfForm DEF Clamped
      <4>3. Meaning("number", v) = v
        BY <1>1, <2>2 DEF Meaning
      <4>4. Meaning("number", Clamped(v, Lowest)) = Clamped(v, Lowest)
        BY <4>2 DEF Meaning
      <4> QED
        BY <4>1, <4>3, <4>4 DEF Alters, Resaved, ToJson
    <3>2. Clamped(v, Lowest) # v <=> v \notin Lowest..Highest
      BY <2>2, NumbersOfForm DEF Clamped
    <3> QED
      BY <2>2, <3>1, <3>2
  <2> QED
    BY <2>1, <2>2 DEF Values, Given
<1>3. ASSUME NEW v \in Values("lease")
      PROVE  Alters("lease", v) <=> v \in {n \in 0..MaxNumber : n = 0 \/ n > Highest}
  <2>1. CASE v = Missing
    BY <1>1, <2>1 DEF Alters, Resaved, Meaning, ToJson, Show, Default
  <2>2. CASE v \in 0..MaxNumber
    <3>1. Alters("lease", v) <=> (IF Clamped(v, 0) = 0 THEN Missing ELSE Clamped(v, 0)) # v
      <4>1. Show("lease", v) = Clamped(v, 0)
        BY <1>1, <2>2 DEF Show
      <4> QED
        BY <4>1 DEF Alters, Resaved, ToJson, Meaning
    <3>2. Missing # v
      BY <1>1, <2>2
    <3>3. CASE v = 0
      BY <3>1, <3>2, <3>3, NumbersOfForm DEF Clamped
    <3>4. CASE v > Highest
      BY <2>2, <3>1, <3>2, <3>4, NumbersOfForm DEF Clamped
    <3>5. CASE v # 0 /\ ~(v > Highest)
      <4>1. Clamped(v, 0) = v
        BY <2>2, <3>5, NumbersOfForm DEF Clamped
      <4> QED
        BY <3>1, <3>5, <4>1
    <3> QED
      BY <2>2, <3>3, <3>4, <3>5
  <2> QED
    BY <2>1, <2>2 DEF Values, Given
<1> QED
  BY <1>2, <1>3

(* For values of any size: saving a profile as it is shown changes what    *)
(* the kinds in KnownToChange mean, and nothing else.                      *)
THEOREM SavingKeepsMeaning == FormKeepsMeaning
<1>1. \A k \in Kinds : \A v \in Values(k) : Alters(k, v) <=> <<k, v>> \in KnownToChange
  <2> SUFFICES ASSUME NEW k \in Kinds, NEW v \in Values(k)
               PROVE  Alters(k, v) <=> <<k, v>> \in KnownToChange
    OBVIOUS
  <2>1. CASE k \in {"flag", "text"}
    BY <2>1, SimpleValues DEF KnownToChange
  <2>2. CASE k = "optional"
    BY <2>2, SimpleValues DEF KnownToChange
  <2>3. CASE k = "choice"
    BY <2>3, SimpleValues DEF KnownToChange
  <2>4. CASE k = "list"
    BY <2>4, ListsMeanTheSame DEF KnownToChange, Alters
  <2>5. CASE k = "number"
    <3> DEFINE Out == {n \in 0..MaxNumber : n \notin Lowest..Highest}
    <3>1. <<k, v>> \in KnownToChange <=> v \in Out
      BY <2>5 DEF KnownToChange
    <3> HIDE DEF Out
    <3> QED
      BY <2>5, <3>1, NumberValues DEF Out
  <2>6. CASE k = "lease"
    <3> DEFINE Out == {n \in 0..MaxNumber : n = 0 \/ n > Highest}
    <3>1. <<k, v>> \in KnownToChange <=> v \in Out
      BY <2>6 DEF KnownToChange
    <3> HIDE DEF Out
    <3> QED
      BY <2>6, <3>1, NumberValues DEF Out
  <2> QED
    BY <2>1, <2>2, <2>3, <2>4, <2>5, <2>6 DEF Kinds
<1>2. ASSUME NEW p \in KnownToChange
      PROVE  \E k \in Kinds : \E v \in Values(k) : p = <<k, v>>
  <2>1. CASE p = <<"optional", "">>
    BY <2>1, FormAssumption DEF Kinds, Values, Given
  <2>2. CASE p \in {"choice"} \X (Texts \ Offered)
    BY <2>2 DEF Kinds, Values, Given
  <2>3. CASE \/ p \in {"number"} \X {n \in 0..MaxNumber : n \notin Lowest..Highest}
             \/ p \in {"lease"} \X {n \in 0..MaxNumber : n = 0 \/ n > Highest}
    <3>1. PICK k \in {"number", "lease"}, v \in 0..MaxNumber : p = <<k, v>>
      BY <2>3
    <3>2. k \in Kinds /\ v \in Values(k)
      BY DEF Kinds, Values, Given
    <3> QED
      BY <3>1, <3>2
  <2> QED
    BY <1>2, <2>1, <2>2, <2>3 DEF KnownToChange
<1>3. \A p : p \in ChangedBySaving <=>
         \E k \in Kinds : \E v \in Values(k) : p = <<k, v>> /\ Alters(k, v)
  BY DEF ChangedBySaving, Alters
<1>4. ChangedBySaving = KnownToChange
  <2>1. ASSUME NEW p \in ChangedBySaving PROVE p \in KnownToChange
    BY <1>1, <1>3, <2>1
  <2>2. ASSUME NEW p \in KnownToChange PROVE p \in ChangedBySaving
    <3>1. PICK k \in Kinds : \E v \in Values(k) : p = <<k, v>>
      BY <1>2, <2>2
    <3>2. PICK v \in Values(k) : p = <<k, v>>
      BY <3>1
    <3> QED
      BY <1>1, <1>3, <2>2, <3>2
  <2> QED
    BY <2>1, <2>2
<1>5. ResetMeansUnset
  <2>1. ParseCommaList(<<>>) = <<>>
    <3>1. <<>> \in Seq(Words)
      OBVIOUS
    <3> QED
      BY <3>1, CleanIsKept
  <2>2. DefaultNumber # Missing
    <3>1. DefaultNumber \in 0..MaxNumber
      BY NumbersOfForm
    <3>2. Missing \notin Given("number")
      BY FormAssumption DEF Kinds
    <3> QED
      BY <3>1, <3>2 DEF Given
  <2>3. Missing \notin BOOLEAN /\ Missing # "first"
    <3>1. Missing \notin Given("flag") /\ Missing \notin Given("choice")
      BY FormAssumption DEF Kinds
    <3> QED
      BY <3>1 DEF Given, Offered
  <2>4. ASSUME NEW k \in Kinds
        PROVE  Meaning(k, ToJson(k, Default(k))) = Meaning(k, Missing)
    BY <2>1, <2>2, <2>3, <2>4 DEF Meaning, ToJson, Default, Kinds
  <2> QED
    BY <2>4 DEF ResetMeansUnset
<1> QED
  BY <1>4, <1>5 DEF FormKeepsMeaning
=============================================================================
