------------------------- MODULE FlecsCommandsProofs -------------------------
(***************************************************************************)
(* Proofs about deferred commands, for every number of stages and commands,  *)
(* every world and all observers: an entity's commands are chained as         *)
(* batching needs, nothing is left queued, the world is well typed, its pairs *)
(* name entities that live, and a flush leaves what the queued commands leave *)
(* when they are done one by one.                                            *)
(***************************************************************************)
EXTENDS FlecsCommands, SequenceTheorems, WellFoundedInduction, TLAPS

\* The types.
Handles == [id : Ids, gen : 0 .. MaxGen + 1]

CommandSet ==
    {c \in [op : Kinds, kind : Kinds, entity : Handles, id : AllIds \cup {NoId},
            value : Values \cup {Default}, next : Int, entry : BOOLEAN] :
        /\ c.kind \in {"Add", "Remove"} => c.id \in AllIds
        /\ c.kind \in {"Set", "AddModified"} => c.id \in Components}

Entries == [first : Nat, last : Nat]

StageSet ==
    [defer : -MaxDepth .. MaxDepth,
     queue : Seq(CommandSet), entries : [Ids -> Entries],
     flushed : Seq(CommandSet), stale : [Ids -> Entries],
     at : Nat, phase : {"visit", "set", "execute"}, added : SUBSET AllIds]

WorldSet ==
    [alive : SUBSET Ids, gen : [Ids -> 0 .. MaxGen + 1], has : [Ids -> SUBSET AllIds],
     value : [Ids -> [Components -> Values \cup {Default}]]]

\* A world whose pairs name living targets, and in which what is dead has nothing.
WorldOK(w) ==
    /\ w \in WorldSet
    /\ \A id \in Ids \ w.alive : w.has[id] = {}
    /\ \A id \in w.alive : w.gen[id] <= MaxGen
    /\ \A id \in w.alive : \A p \in w.has[id] \cap Pairs : p.target \in w.alive

\* The entries of the queue that is flushed: those of commands to come.
Ahead(x, n) ==
    \A id \in Ids : x.stale[id] # NoEntry =>
        /\ x.at # 0 /\ x.stale[id].first \in n .. Len(x.flushed)
        /\ x.flushed[x.stale[id].first].entry
        /\ x.flushed[x.stale[id].first].entity.id = id

\* A stage's queues.
QueueOK(x) ==
    /\ Chained(x.queue, x.entries)
    /\ \A id \in Ids : x.entries[id].first = 0 => x.entries[id] = NoEntry
StageOK(x) == QueueOK(x) /\ x.at <= Len(x.flushed) /\ Ahead(x, x.at)

StagesOK(st) == st \in [Stages -> StageSet] /\ \A s \in Stages : StageOK(st[s])

\* A stage that is neither deferred nor flushed has no command.
Emptied(x) == x.at = 0 /\ x.defer = 0 => x.queue = <<>>

\* Which stages are deferred: all while the world is readonly, and those that
\* have not been merged.
DefersSound ==
    /\ stageCount \in 1 .. MaxStages /\ merging \in 0 .. stageCount
    /\ readonly \in BOOLEAN /\ (readonly => merging = stageCount)
    /\ \A s \in Stages :
          IF readonly \/ s >= merging THEN stage[s].defer = 1
          ELSE s # 0 \/ merging < stageCount => stage[s].defer = 0

IInv ==
    /\ WorldOK(world) /\ StagesOK(stage) /\ DefersSound
    /\ \A s \in Stages : Emptied(stage[s])

-----------------------------------------------------------------------------
(* Queues                                                                    *)

\* Of a set of numbers that has a member, one is the least.
LEMMA SmallestOf ==
    ASSUME NEW S \in SUBSET Nat, S # {}
    PROVE  \E n \in S : \A m \in S : n <= m
<1>1. IsWellFoundedOn(OpToRel(<, Nat), Nat)
  BY NatLessThanWellFounded, Zenon
<1>2. PICK n \in S : \A m \in S : <<m, n>> \notin OpToRel(<, Nat)
  BY <1>1, WFMin, Zenon
<1>3. \A m \in S : ~(m < n)
  BY <1>2, Zenon DEF OpToRel
<1> QED
  BY <1>3

\* Where a chain begins and ends, and what it is made of.
LEMMA ChainFacts ==
    ASSUME NEW q \in Seq(CommandSet), NEW entry \in Entries, NEW id, ChainSound(q, entry, id)
    PROVE  /\ entry.first \in 1 .. Len(q) /\ entry.last \in 1 .. Len(q)
           /\ q[entry.first].entry /\ q[entry.first].entity.id = id
           /\ q[entry.last].entity = q[entry.first].entity
           /\ entry.last \in OwnCommands(q, entry)
           /\ \A j \in OwnCommands(q, entry) :
                 j \in 1 .. Len(q) /\ q[j].entity = q[entry.first].entity
<1>1. entry.first \in Nat /\ entry.last \in Nat
  BY DEF Entries
<1>2. entry.first \in 1 .. Len(q) /\ q[entry.first].entry /\ q[entry.first].entity.id = id
  BY <1>1 DEF ChainSound
<1>3. \A j \in OwnCommands(q, entry) :
         j \in 1 .. Len(q) /\ q[j].entity = q[entry.first].entity
  BY <1>2 DEF OwnCommands
<1>4. entry.last \in OwnCommands(q, entry)
  BY DEF ChainSound
<1> QED
  BY <1>2, <1>3, <1>4

\* A command is queued: the queue and the entries after it.
Links(q, entries, c, r, after) ==
    /\ r = Linked(q, entries[c.entity.id], c)
    /\ after = [entries EXCEPT ![c.entity.id] = LinkedEntry(q, entries[c.entity.id], c)]

\* flecs_cmd_new_batched chains a command that is queued, and leaves the chains
\* of the other entities as they were.
LEMMA LinkedChained ==
    ASSUME NEW q \in Seq(CommandSet), NEW entries \in [Ids -> Entries], Chained(q, entries),
           NEW c \in CommandSet, c.next = 0,
           NEW r, NEW after, Links(q, entries, c, r, after)
    PROVE  /\ r \in Seq(CommandSet)
           /\ after \in [Ids -> Entries]
           /\ \A id \in Ids : after[id].first = 0 => after[id] = entries[id]
           /\ Chained(r, after)
<1> DEFINE L == Len(q)  i == c.entity.id  entry == entries[i]
           linked == IsLinked(q, entry, c)
           base == IF linked
                   THEN [q EXCEPT ![entry.last].next = IF entry.last = entry.first THEN -(L + 1) ELSE L + 1]
                   ELSE q
           new == [c EXCEPT !.entry = ~linked]
<1>1. /\ L \in Nat /\ i \in Ids /\ entry \in Entries /\ linked \in BOOLEAN
      /\ entry.first \in Nat /\ entry.last \in Nat
  <2>1. c.entity \in Handles
    BY DEF CommandSet
  <2>2. linked \in BOOLEAN
    BY DEF IsLinked
  <2> QED
    BY <2>1, <2>2 DEF Handles, Entries
<1>2. new \in CommandSet /\ new.entity = c.entity /\ new.next = 0 /\ new.entry = ~linked
  BY <1>1, Zenon DEF CommandSet
<1>3. linked => /\ ChainSound(q, entry, i)
                /\ entry.first \in 1 .. L /\ entry.last \in 1 .. L
                /\ q[entry.first].entry
                /\ q[entry.first].entity = c.entity /\ q[entry.last].entity = c.entity
  <2> SUFFICES ASSUME linked PROVE ChainSound(q, entry, i) /\ q[entry.last].entity = c.entity
    BY <1>1, ChainFacts
  <2> QED
    BY <1>1 DEF Chained, IsLinked
<1>4. /\ base \in Seq(CommandSet) /\ Len(base) = L
      /\ \A j \in 1 .. L : base[j].entity = q[j].entity /\ base[j].entry = q[j].entry
      /\ \A j \in 1 .. L : ~linked \/ j # entry.last => base[j].next = q[j].next
      /\ linked => Abs(base[entry.last].next) = L + 1
  <2>1. CASE ~linked
    BY <2>1
  <2>2. CASE linked
    <3> DEFINE n == IF entry.last = entry.first THEN -(L + 1) ELSE L + 1
    <3>1. n \in Int /\ Abs(n) = L + 1
      BY <1>1 DEF Abs
    <3> DEFINE u == [q[entry.last] EXCEPT !.next = n]
    <3>2. base = [q EXCEPT ![entry.last] = u]
      BY <2>2
    <3>3. q[entry.last] \in CommandSet
      BY <1>3, <2>2
    <3> HIDE DEF n
    <3>4. /\ u \in CommandSet /\ u.next = n
          /\ u.entity = q[entry.last].entity /\ u.entry = q[entry.last].entry
      BY <3>1, <3>3 DEF CommandSet
    <3> HIDE DEF base, u
    <3>5. /\ base \in Seq(CommandSet) /\ Len(base) = L
          /\ \A j \in 1 .. L : base[j] = IF j = entry.last THEN u ELSE q[j]
      <4>1. entry.last \in 1 .. Len(q)
        BY <1>3, <2>2
      <4>2. LET z == [q EXCEPT ![entry.last] = u]
            IN  /\ z \in Seq(CommandSet) /\ Len(z) = Len(q)
                /\ \A j \in 1 .. Len(q) : z[j] = IF j = entry.last THEN u ELSE q[j]
        BY <3>4, <4>1, ExceptSeq
      <4> QED
        BY <3>2, <4>2
    <3>6. entry.last \in 1 .. L
      BY <1>3, <2>2
    <3> HIDE DEF L
    <3> QED
      BY <3>1, <3>4, <3>5, <3>6, <2>2, Zenon
  <2> QED
    BY <2>1, <2>2, Zenon
<1>5. r = Append(base, new)
  BY DEF Linked, Links
<1> HIDE DEF base, new
<1>6. /\ r \in Seq(CommandSet) /\ Len(r) = L + 1 /\ r[L + 1] = new
      /\ \A j \in 1 .. L : r[j] = base[j]
  BY <1>2, <1>4, <1>5, <1>1
<1>7. /\ after \in [Ids -> Entries]
      /\ after[i] = [first |-> IF linked THEN entry.first ELSE L + 1, last |-> L + 1]
      /\ \A id \in Ids : id # i => after[id] = entries[id]
  <2>1. LinkedEntry(q, entry, c) = [first |-> IF linked THEN entry.first ELSE L + 1, last |-> L + 1]
    BY DEF LinkedEntry
  <2>2. LinkedEntry(q, entry, c) \in Entries
    BY <2>1, <1>1 DEF Entries
  <2> QED
    BY <2>1, <2>2, <1>1 DEF Links
<1> HIDE DEF entry
<1>8. after[i].first # 0 /\ \A id \in Ids : after[id].first = 0 => after[id] = entries[id]
  BY <1>7, <1>3, <1>1
<1>9. /\ \A j \in 1 .. L : r[j].entity = q[j].entity /\ r[j].entry = q[j].entry
      /\ \A j \in 1 .. L : ~linked \/ j # entry.last => r[j].next = q[j].next
      /\ linked => Abs(r[entry.last].next) = L + 1
      /\ r[L + 1].entity = c.entity /\ r[L + 1].next = 0 /\ r[L + 1].entry = ~linked
      /\ DOMAIN r = 1 .. L + 1 /\ DOMAIN q = 1 .. L
  <2>1. \A j \in 1 .. L : r[j].entity = q[j].entity /\ r[j].entry = q[j].entry
    BY <1>4, <1>6
  <2>2. \A j \in 1 .. L : ~linked \/ j # entry.last => r[j].next = q[j].next
    BY <1>4, <1>6
  <2>3. linked => Abs(r[entry.last].next) = L + 1
    BY <1>3, <1>4, <1>6
  <2>4. r[L + 1].entity = c.entity /\ r[L + 1].next = 0 /\ r[L + 1].entry = ~linked
    BY <1>2, <1>6
  <2>5. DOMAIN r = 1 .. L + 1 /\ DOMAIN q = 1 .. L
    BY <1>6
  <2> QED
    BY <2>1, <2>2, <2>3, <2>4, <2>5
<1>10. ASSUME NEW id \in Ids, id # i, entries[id].first # 0
       PROVE  ChainSound(r, entries[id], id)
  <2> DEFINE x == entries[id]
  <2>1. ChainSound(q, x, id)
    BY <1>10 DEF Chained
  <2>2. x.first \in 1 .. L /\ x.last \in 1 .. L
    BY <2>1, <1>9 DEF ChainSound, OwnCommands
  <2>3. OwnCommands(r, x) = OwnCommands(q, x)
    <3>1. r[L + 1].entity # q[x.first].entity
      BY <2>1, <1>9, <1>10 DEF ChainSound
    <3>2. r[x.first].entity = q[x.first].entity
      BY <2>2, <1>9
    <3> QED
      BY <3>1, <3>2, <2>2, <1>9, <1>6, <1>1 DEF OwnCommands
  <2>4. \A j \in OwnCommands(q, x) : j \in 1 .. L /\ q[j].entity.id = id
    BY <2>1, <2>2, <1>1 DEF OwnCommands, ChainSound
  <2>5. \A j \in OwnCommands(q, x) : r[j].next = q[j].next
    <3> TAKE j \in OwnCommands(q, x)
    <3>1. linked => j # entry.last
      BY <2>4, <1>3, <1>10
    <3> QED
      BY <3>1, <2>4, <1>9
  <2>6. r[x.first].entry /\ r[x.first].entity.id = id /\ x.first \in DOMAIN r
    BY <2>1, <2>2, <1>9, <1>1 DEF ChainSound
  <2> QED
    BY <2>1, <2>3, <2>5, <2>6 DEF ChainSound
<1>11. ASSUME ~linked PROVE ChainSound(r, after[i], i)
  <2>1. after[i].first = L + 1 /\ after[i].last = L + 1
    BY <1>7, <1>11
  <2>2. OwnCommands(r, after[i]) = {L + 1}
    BY <2>1, <1>6, <1>1 DEF OwnCommands
  <2>3. L + 1 \in DOMAIN r
    BY <1>1, <1>9
  <2> QED
    <3>1. r[L + 1].entry /\ r[L + 1].entity = c.entity /\ r[L + 1].next = 0
      BY <1>9, <1>11, Zenon
    <3>2. \A j \in {L + 1} : j <= L + 1
      BY <1>1
    <3> QED
      BY <2>1, <2>2, <2>3, <3>1, <3>2 DEF ChainSound
<1>12. ASSUME linked PROVE ChainSound(r, after[i], i)
  <2> DEFINE own == OwnCommands(q, entry)
  <2>1. after[i].first = entry.first /\ after[i].last = L + 1
    BY <1>7, <1>12
  <2>2. OwnCommands(r, after[i]) = own \cup {L + 1}
    <3>1. /\ entry.first \in 1 .. L /\ q[entry.first].entity = c.entity
          /\ r[L + 1].entity = c.entity /\ \A j \in 1 .. L : r[j].entity = q[j].entity
      BY <1>3, <1>9, <1>12, Zenon
    <3>2. Len(r) = L + 1 /\ L \in Nat
      BY <1>1, <1>6
    <3> HIDE DEF L
    <3>3. own = {j \in entry.first .. L : q[j].entity = c.entity}
      BY <3>1 DEF OwnCommands, L
    <3>4. OwnCommands(r, after[i]) = {j \in entry.first .. L + 1 : r[j].entity = c.entity}
      <4>1. r[entry.first].entity = c.entity
        BY <3>1
      <4> QED
        BY <2>1, <3>2, <4>1 DEF OwnCommands
    <3> HIDE DEF own
    <3> QED
      BY <3>1, <3>2, <3>3, <3>4
  <2>3. \A j \in own : j \in 1 .. L
    BY <1>3, <1>1, <1>12 DEF OwnCommands
  <2>4. /\ entry.last \in own /\ \A j \in own : j <= entry.last
        /\ \A j \in own \ {entry.last} :
              Abs(q[j].next) \in own /\ \A k \in own : k > j => Abs(q[j].next) <= k
    BY <1>3, <1>12 DEF ChainSound
  <2> HIDE DEF own
  <2>5. \A j \in own : /\ Abs(r[j].next) \in own \cup {L + 1}
                       /\ \A k \in own \cup {L + 1} : k > j => Abs(r[j].next) <= k
    <3> TAKE j \in own
    <3>1. CASE j = entry.last
      <4>1. Abs(r[j].next) = L + 1
        BY <3>1, <1>9, <1>12
      <4>2. \A k \in own \cup {L + 1} : k > j => k = L + 1
        BY <3>1, <2>3, <2>4
      <4> QED
        BY <4>1, <4>2, <1>1
    <3>2. CASE j # entry.last
      <4>1. Abs(r[j].next) \in own /\ \A k \in own : k > j => Abs(r[j].next) <= k
        BY <3>2, <2>3, <2>4, <1>9
      <4> QED
        BY <4>1, <2>3, <1>1
    <3> QED
      BY <3>1, <3>2
  <2>6. L + 1 \in DOMAIN r /\ entry.first \in DOMAIN r
    <3>1. entry.first \in 1 .. L
      BY <1>3, <1>12
    <3>2. L \in Nat /\ DOMAIN r = 1 .. L + 1
      BY <1>1, <1>9
    <3> QED
      BY <3>1, <3>2
  <2>7. \A j \in own \cup {L + 1} : j <= L + 1
    BY <2>3, <1>1
  <2>8. r[entry.first].entry /\ r[entry.first].entity.id = i
    BY <1>3, <1>9, <1>12, Zenon
  <2> QED
    BY <2>1, <2>2, <2>5, <2>6, <2>7, <2>8, <1>9, Zenon DEF ChainSound
<1>13. Chained(r, after)
  <2> SUFFICES ASSUME NEW id \in Ids, after[id].first # 0
               PROVE  ChainSound(r, after[id], id)
    BY DEF Chained
  <2> QED
    BY <1>7, <1>10, <1>11, <1>12
<1> QED
  BY <1>6, <1>7, <1>8, <1>13

-----------------------------------------------------------------------------
(* Stages                                                                    *)

\* What a stage's fields are.
LEMMA StageFacts ==
    ASSUME NEW x \in StageSet
    PROVE  /\ x.defer \in Int /\ x.at \in Nat /\ x.phase \in {"visit", "set", "execute"}
           /\ x.queue \in Seq(CommandSet) /\ x.flushed \in Seq(CommandSet)
           /\ x.entries \in [Ids -> Entries] /\ x.stale \in [Ids -> Entries]
           /\ x.added \subseteq AllIds
  BY BoundsAssumption DEF StageSet

\* flecs_defer_end: the queues change places.  What was queued is flushed, from
\* its first command on, and nothing is queued.
LEMMA StartFlushFacts ==
    ASSUME NEW st \in [Stages -> StageSet], NEW s \in Stages, QueueOK(st[s]),
           \A id \in Ids : st[s].stale[id] = NoEntry,
           NEW r, r = StartFlush(st, s)
    PROVE  /\ r \in [Stages -> StageSet]
           /\ StageOK(r[s]) /\ r[s].queue = <<>> /\ r[s].defer = st[s].defer
           /\ \A t \in Stages \ {s} : r[t] = st[t]
<1> DEFINE x == st[s]
           n == IF x.queue = <<>> THEN 0 ELSE 1
           y == [x EXCEPT !.queue = <<>>, !.flushed = x.queue, !.entries = x.stale,
                          !.stale = x.entries, !.at = n, !.phase = "visit"]
<1>1. x \in StageSet
  OBVIOUS
<1>2. r = [st EXCEPT ![s] = y]
  BY Zenon DEF StartFlush
<1>3. /\ y \in StageSet /\ y.queue = <<>> /\ y.flushed = x.queue /\ y.entries = x.stale
      /\ y.stale = x.entries /\ y.at = n /\ y.defer = x.defer
  <2> HIDE DEF n
  <2>1. n \in Nat
    BY DEF n
  <2>2. <<>> \in Seq(CommandSet)
    OBVIOUS
  <2>3. /\ x.queue \in Seq(CommandSet) /\ x.entries \in [Ids -> Entries]
        /\ x.stale \in [Ids -> Entries]
    BY <1>1, StageFacts
  <2>4. /\ y.queue = <<>> /\ y.flushed = x.queue /\ y.entries = x.stale
        /\ y.stale = x.entries /\ y.at = n /\ y.defer = x.defer
    BY <1>1 DEF StageSet
  <2>5. y \in StageSet
    BY <1>1, <2>1, <2>2, <2>3, Zenon DEF StageSet
  <2> QED
    BY <2>4, <2>5
<1> HIDE DEF y
<1>4. StageOK(y)
  <2>1. QueueOK(y)
    <3>1. \A id \in Ids : y.entries[id] = NoEntry
      BY <1>3, Zenon
    <3> QED
      BY <3>1 DEF QueueOK, Chained, NoEntry
  <2>2. y.at <= Len(y.flushed)
    BY <1>1, <1>3, StageFacts
  <2>3. Ahead(y, y.at)
    <3> SUFFICES ASSUME NEW id \in Ids, x.entries[id] # NoEntry
                 PROVE  /\ y.at # 0 /\ x.entries[id].first \in y.at .. Len(x.queue)
                        /\ x.queue[x.entries[id].first].entry
                        /\ x.queue[x.entries[id].first].entity.id = id
      BY <1>3 DEF Ahead
    <3>1. x.entries[id].first # 0 /\ ChainSound(x.queue, x.entries[id], id)
      BY DEF QueueOK, Chained
    <3>2. /\ x.entries[id].first \in 1 .. Len(x.queue)
          /\ x.queue[x.entries[id].first].entry
          /\ x.queue[x.entries[id].first].entity.id = id
      BY <3>1, <1>1, StageFacts, ChainFacts
    <3>3. x.queue # <<>>
      BY <3>2, <1>1, StageFacts
    <3>4. y.at = 1
      BY <1>3, <3>3
    <3> QED
      BY <3>2, <3>4
  <2> QED
    BY <2>1, <2>2, <2>3 DEF StageOK
<1> QED
  BY <1>2, <1>3, <1>4

\* Once a flush is over, no entry of its commands is left.
LEMMA OverFacts ==
    ASSUME NEW x, Ahead(x, x.at), x.at = 0
    PROVE  \A id \in Ids : x.stale[id] = NoEntry
  BY Zenon DEF Ahead

\* A command that is queued.
NewCommand(c) == c \in CommandSet /\ c.next = 0 /\ (c.op = "Set" => c.id \in Components)

\* A command is queued, and chained, on one stage.
LEMMA PutFacts ==
    ASSUME NEW st \in [Stages -> StageSet], NEW s \in Stages, StageOK(st[s]),
           NEW w, NEW command, NewCommand(command),
           NEW r, r = Put(st, s, w, command)
    PROVE  /\ r \in [Stages -> StageSet]
           /\ StageOK(r[s]) /\ r[s].defer = st[s].defer
           /\ r[s].at = st[s].at /\ r[s].flushed = st[s].flushed /\ r[s].stale = st[s].stale
           /\ r[s].phase = st[s].phase /\ r[s].added = st[s].added
           /\ \A t \in Stages \ {s} : r[t] = st[t]
<1> DEFINE x == st[s]
           c == IF WritesAtOnce(w, command) THEN [command EXCEPT !.kind = "AddModified"] ELSE command
           i == c.entity.id
           q == Linked(x.queue, x.entries[i], c)
           entries == [x.entries EXCEPT ![i] = LinkedEntry(x.queue, x.entries[i], c)]
           y == [x EXCEPT !.queue = q, !.entries = entries]
<1>1. x \in StageSet
  OBVIOUS
<1>2. c \in CommandSet /\ c.next = 0 /\ c.entity = command.entity
  <2>1. command \in CommandSet /\ command.next = 0
    BY DEF NewCommand
  <2>2. WritesAtOnce(w, command) => command.id \in Components
    BY DEF WritesAtOnce, NewCommand
  <2>3. "AddModified" \in Kinds
    BY DEF Kinds
  <2> QED
    BY <2>1, <2>2, <2>3 DEF CommandSet
<1>3. r = [st EXCEPT ![s] = y]
  <2>1. r = [st EXCEPT ![s].queue = q, ![s].entries[i] = LinkedEntry(x.queue, x.entries[i], c)]
    BY <1>2 DEF Put
  <2> HIDE DEF c
  <2> QED
    BY <2>1, <1>1, Zenon DEF StageSet
<1> HIDE DEF c
<1>4. /\ q \in Seq(CommandSet) /\ entries \in [Ids -> Entries]
      /\ \A id \in Ids : entries[id].first = 0 => entries[id] = x.entries[id]
      /\ Chained(q, entries)
  <2>1. x.queue \in Seq(CommandSet) /\ x.entries \in [Ids -> Entries]
    BY <1>1, StageFacts
  <2>2. Chained(x.queue, x.entries)
    BY DEF StageOK, QueueOK
  <2>3. Links(x.queue, x.entries, c, q, entries)
    BY DEF Links
  <2>4. c \in CommandSet /\ c.next = 0
    BY <1>2
  <2> HIDE DEF x, q, entries
  <2> QED
    BY <2>1, <2>2, <2>3, <2>4, LinkedChained
<1> HIDE DEF q, entries
<1>5. /\ y \in StageSet /\ y.queue = q /\ y.entries = entries
      /\ y.defer = x.defer /\ y.at = x.at /\ y.flushed = x.flushed /\ y.stale = x.stale
      /\ y.phase = x.phase /\ y.added = x.added
  BY <1>1, <1>4, Zenon DEF StageSet
<1> HIDE DEF y
<1>6. StageOK(y)
  <2>1. QueueOK(y)
    BY <1>4, <1>5 DEF StageOK, QueueOK
  <2>2. y.at <= Len(y.flushed) /\ Ahead(y, y.at)
    BY <1>5 DEF StageOK, Ahead
  <2> QED
    BY <2>1, <2>2 DEF StageOK
<1> QED
  BY <1>3, <1>5, <1>6

\* Before a command is executed, its entry is invalidated: what is left are
\* entries of later commands.
LEMMA InvalidatedFacts ==
    ASSUME NEW st \in [Stages -> StageSet], NEW s \in Stages, StageOK(st[s]), st[s].at # 0,
           NEW r, r = Invalidated(st, s, st[s].flushed[st[s].at])
    PROVE  /\ r \in [Stages -> StageSet]
           /\ r[s] = [st[s] EXCEPT !.stale = r[s].stale]
           /\ StageOK(r[s]) /\ Ahead(r[s], r[s].at + 1)
           /\ \A t \in Stages \ {s} : r[t] = st[t]
<1> DEFINE x == st[s]  c == x.flushed[x.at]
           stale == IF c.entry THEN [x.stale EXCEPT ![c.entity.id] = NoEntry] ELSE x.stale
           y == [x EXCEPT !.stale = stale]
<1>1. x \in StageSet /\ c \in CommandSet /\ x.at \in 1 .. Len(x.flushed)
  <2>1. x \in StageSet
    OBVIOUS
  <2> QED
    BY <2>1, StageFacts DEF StageOK
<1>2. c.entity.id \in Ids
  BY <1>1 DEF CommandSet, Handles
<1>3. r = [st EXCEPT ![s] = y]
  BY <1>1, Zenon DEF Invalidated, StageSet
<1>4. /\ stale \in [Ids -> Entries]
      /\ \A id \in Ids : stale[id] # NoEntry => stale[id] = x.stale[id]
      /\ c.entry => stale[c.entity.id] = NoEntry
  BY <1>1, <1>2, StageFacts DEF NoEntry, Entries
<1> HIDE DEF stale
<1>5. /\ y \in StageSet /\ y.stale = stale /\ y.queue = x.queue /\ y.entries = x.entries
      /\ y.at = x.at /\ y.flushed = x.flushed
  BY <1>1, <1>4, Zenon DEF StageSet
<1>6. r[s] = y /\ r \in [Stages -> StageSet] /\ \A t \in Stages \ {s} : r[t] = st[t]
  BY <1>3, <1>5
<1>7. r[s] = [st[s] EXCEPT !.stale = r[s].stale]
  BY <1>5, <1>6
<1> HIDE DEF y
<1>8. Ahead(y, y.at) /\ Ahead(y, y.at + 1)
  <2> SUFFICES ASSUME NEW id \in Ids, stale[id] # NoEntry
               PROVE  /\ x.at # 0 /\ stale[id].first \in x.at + 1 .. Len(x.flushed)
                      /\ stale[id].first \in x.at .. Len(x.flushed)
                      /\ x.flushed[stale[id].first].entry
                      /\ x.flushed[stale[id].first].entity.id = id
    BY <1>5, Zenon DEF Ahead
  <2>1. /\ x.at # 0 /\ stale[id].first \in x.at .. Len(x.flushed)
        /\ x.flushed[stale[id].first].entry
        /\ x.flushed[stale[id].first].entity.id = id
    BY <1>4 DEF StageOK, Ahead
  <2>2. stale[id].first # x.at
    BY <2>1, <1>4
  <2> QED
    BY <2>1, <2>2, <1>1
<1>9. QueueOK(y) /\ y.at <= Len(y.flushed)
  BY <1>5 DEF StageOK, QueueOK
<1> QED
  BY <1>6, <1>7, <1>8, <1>9 DEF StageOK

\* The flush goes on to the next command, and after the last one to what was
\* queued in the meantime.
LEMMA NextCommandFacts ==
    ASSUME NEW st \in [Stages -> StageSet], NEW s \in Stages,
           QueueOK(st[s]), st[s].at # 0, st[s].at <= Len(st[s].flushed),
           Ahead(st[s], st[s].at + 1),
           NEW r, r = NextCommand(st, s)
    PROVE  /\ r \in [Stages -> StageSet]
           /\ StageOK(r[s]) /\ Emptied(r[s]) /\ r[s].defer = st[s].defer
           /\ \A t \in Stages \ {s} : r[t] = st[t]
<1> DEFINE x == st[s]  n == x.at + 1  y == [x EXCEPT !.at = n, !.phase = "visit"]
<1>1. x \in StageSet /\ x.at \in Nat /\ Len(x.flushed) \in Nat
  <2>1. x \in StageSet
    OBVIOUS
  <2> QED
    BY <2>1, StageFacts
<1>2. CASE x.at < Len(x.flushed)
  <2>1. r = [st EXCEPT ![s] = y]
    BY <1>2, Zenon DEF NextCommand
  <2>2. n \in Nat /\ n = x.at + 1
    BY <1>1
  <2> HIDE DEF n
  <2>3. /\ y \in StageSet /\ y.at = n /\ y.flushed = x.flushed /\ y.stale = x.stale
        /\ y.queue = x.queue /\ y.entries = x.entries /\ y.defer = x.defer
    BY <1>1, <2>2, Zenon DEF StageSet
  <2> HIDE DEF y
  <2>4. StageOK(y) /\ Emptied(y)
    <3>1. QueueOK(y)
      BY <2>3 DEF QueueOK
    <3>2. y.at # 0 /\ y.at <= Len(y.flushed)
      BY <2>2, <2>3, <1>1, <1>2
    <3>3. Ahead(y, y.at)
      BY <2>2, <2>3, <3>2 DEF Ahead
    <3> QED
      BY <3>1, <3>2, <3>3 DEF StageOK, Emptied
  <2> QED
    BY <2>1, <2>3, <2>4
<1>3. CASE x.at = Len(x.flushed)
  <2>1. r = StartFlush(st, s)
    BY <1>1, <1>3 DEF NextCommand
  <2>2. \A id \in Ids : x.stale[id] = NoEntry
    <3> SUFFICES ASSUME NEW id \in Ids, x.stale[id] # NoEntry PROVE FALSE
      BY Zenon
    <3>1. x.stale[id].first \in x.at + 1 .. Len(x.flushed)
      BY DEF Ahead
    <3> QED
      BY <3>1, <1>1, <1>3
  <2>3. /\ r \in [Stages -> StageSet]
        /\ StageOK(r[s]) /\ r[s].queue = <<>> /\ r[s].defer = st[s].defer
        /\ \A t \in Stages \ {s} : r[t] = st[t]
    BY <2>1, <2>2, StartFlushFacts
  <2> QED
    BY <2>3 DEF Emptied
<1> QED
  BY <1>1, <1>2, <1>3

-----------------------------------------------------------------------------
(* Worlds                                                                    *)

\* What an entity may have in a world: components, and pairs with targets that
\* live.
SoundIds(w) == {c \in AllIds : c \in Pairs => c.target \in w.alive}

\* What a world's fields are.
LEMMA WorldFacts ==
    ASSUME NEW w, WorldOK(w)
    PROVE  /\ w \in WorldSet /\ w.alive \subseteq Ids
           /\ w.gen \in [Ids -> 0 .. MaxGen + 1] /\ w.has \in [Ids -> SUBSET AllIds]
           /\ w.value \in [Ids -> [Components -> Values \cup {Default}]]
           /\ \A id \in Ids : w.has[id] \subseteq SoundIds(w)
<1>1. /\ w \in WorldSet /\ w.alive \subseteq Ids
      /\ w.gen \in [Ids -> 0 .. MaxGen + 1] /\ w.has \in [Ids -> SUBSET AllIds]
      /\ w.value \in [Ids -> [Components -> Values \cup {Default}]]
  BY DEF WorldOK, WorldSet
<1>2. ASSUME NEW id \in Ids PROVE w.has[id] \subseteq SoundIds(w)
  BY <1>1 DEF WorldOK, SoundIds
<1> QED
  BY <1>1, <1>2

\* flecs_commit gives a living entity another type.
LEMMA CommitOK ==
    ASSUME NEW w, WorldOK(w), NEW e \in Handles, Alive(w, e), NEW ids, ids \subseteq SoundIds(w),
           NEW v, v = Commit(w, e, ids)
    PROVE  WorldOK(v) /\ v.alive = w.alive /\ v.gen = w.gen
<1> DEFINE values == [w.value EXCEPT ![e.id] = [c \in Components |->
                          IF c \in ids \cap w.has[e.id] THEN @[c] ELSE Default]]
           has == [w.has EXCEPT ![e.id] = ids]
<1>1. e.id \in w.alive /\ e.id \in Ids /\ ids \subseteq AllIds
  BY DEF Alive, Handles, SoundIds
<1>2. v = [w EXCEPT !.has = has, !.value = values]
  BY WorldFacts DEF Commit, WorldSet
<1>3. has \in [Ids -> SUBSET AllIds] /\ has[e.id] = ids /\ \A id \in Ids \ {e.id} : has[id] = w.has[id]
  BY <1>1, WorldFacts
<1>4. values \in [Ids -> [Components -> Values \cup {Default}]]
  BY <1>1, WorldFacts
<1> HIDE DEF has, values
<1>5. v \in WorldSet /\ v.alive = w.alive /\ v.gen = w.gen /\ v.has = has
  <2>1. w \in WorldSet
    BY WorldFacts
  <2>2. v.alive = w.alive /\ v.gen = w.gen /\ v.has = has
    BY <1>2, <2>1 DEF WorldSet
  <2>3. v \in WorldSet
    BY <1>2, <1>3, <1>4, <2>1, Zenon DEF WorldSet
  <2> QED
    BY <2>2, <2>3
<1>6. \A id \in Ids \ w.alive : has[id] = {}
  BY <1>1, <1>3, Zenon DEF WorldOK
<1>7. \A id \in w.alive : w.gen[id] <= MaxGen
  BY Zenon DEF WorldOK
<1>8. ASSUME NEW id \in w.alive, NEW p \in has[id] \cap Pairs PROVE p.target \in w.alive
  <2>1. has[id] \subseteq SoundIds(w)
    BY <1>3, WorldFacts
  <2> QED
    BY <2>1 DEF SoundIds
<1> QED
  BY <1>5, <1>6, <1>7, <1>8 DEF WorldOK

\* What is deleted is the entity, and entities that were alive.
LEMMA DoomedFacts ==
    ASSUME NEW w, NEW id \in w.alive
    PROVE  Doomed(w, id) \subseteq w.alive /\ id \in Doomed(w, id)
  BY DEF Doomed

\* What is left without some entities, and the pairs that name some.
LEMMA WithoutShape ==
    ASSUME NEW w, WorldOK(w), NEW ids, NEW targets, NEW v, v = Without(w, ids, targets)
    PROVE  /\ v.alive = w.alive \ ids
           /\ \A i \in Ids \cap ids :
                 /\ v.gen[i] = w.gen[i] + 1 /\ v.has[i] = {}
                 /\ \A c \in Components : v.value[i][c] = Default
           /\ \A i \in Ids \ ids :
                 /\ v.gen[i] = w.gen[i] /\ v.value[i] = w.value[i]
                 /\ \A c : c \in v.has[i] <=> c \in w.has[i] /\ (c \in Pairs => c.target \notin targets)
<1>1. /\ v.alive = w.alive \ ids
      /\ v.gen = [i \in Ids |-> IF i \in ids THEN w.gen[i] + 1 ELSE w.gen[i]]
      /\ v.has = [i \in Ids |-> IF i \in ids THEN {}
                                ELSE {c \in w.has[i] : c \in Pairs => c.target \notin targets}]
      /\ v.value = [i \in Ids |-> IF i \in ids THEN [c \in Components |-> Default] ELSE w.value[i]]
  BY WorldFacts DEF Without, WorldSet
<1> QED
  BY <1>1

\* It is sound if pairs with the entities go with them.
LEMMA WithoutOK ==
    ASSUME NEW w, WorldOK(w), NEW ids, ids \subseteq w.alive, NEW targets,
           \A i \in w.alive \ ids : \A p \in w.has[i] \cap Pairs : p.target \in ids => p.target \in targets,
           NEW v, v = Without(w, ids, targets)
    PROVE  WorldOK(v)
<1> DEFINE alive == w.alive \ ids
           gen == [i \in Ids |-> IF i \in ids THEN w.gen[i] + 1 ELSE w.gen[i]]
           has == [i \in Ids |-> IF i \in ids THEN {}
                                 ELSE {c \in w.has[i] : c \in Pairs => c.target \notin targets}]
           value == [i \in Ids |-> IF i \in ids THEN [c \in Components |-> Default] ELSE w.value[i]]
<1>1. v = [w EXCEPT !.alive = alive, !.gen = gen, !.has = has, !.value = value]
  BY DEF Without
<1>2. alive \subseteq Ids
  BY WorldFacts
<1>3. gen \in [Ids -> 0 .. MaxGen + 1] /\ \A i \in alive : gen[i] <= MaxGen
  <2>1. ASSUME NEW i \in Ids PROVE gen[i] \in 0 .. MaxGen + 1
    <3>1. w.gen[i] \in 0 .. MaxGen + 1 /\ (i \in ids => w.gen[i] <= MaxGen)
      BY WorldFacts DEF WorldOK
    <3> QED
      BY <3>1, IdsAssumption
  <2>2. ASSUME NEW i \in alive PROVE gen[i] <= MaxGen
    <3>1. w.gen[i] <= MaxGen /\ i \in Ids /\ i \notin ids
      BY WorldFacts DEF WorldOK
    <3> QED
      BY <3>1
  <2> QED
    BY <2>1, <2>2, Zenon
<1>4. /\ has \in [Ids -> SUBSET AllIds]
      /\ \A i \in Ids \ alive : has[i] = {}
      /\ \A i \in alive : \A p \in has[i] \cap Pairs : p.target \in alive
  <2>1. has \in [Ids -> SUBSET AllIds]
    BY WorldFacts
  <2>2. \A i \in Ids \ alive : has[i] = {}
    <3> SUFFICES ASSUME NEW i \in Ids \ alive PROVE has[i] = {}
      BY Zenon
    <3>1. i \notin w.alive => w.has[i] = {}
      BY DEF WorldOK
    <3> QED
      BY <3>1
  <2>3. ASSUME NEW i \in alive, NEW p \in has[i] \cap Pairs PROVE p.target \in alive
    <3>1. i \in Ids /\ i \in w.alive \ ids
      BY <1>2
    <3>2. p \in w.has[i] \cap Pairs /\ p.target \notin targets
      BY <3>1
    <3>3. p.target \in w.alive
      BY <3>1, <3>2 DEF WorldOK
    <3> QED
      BY <3>1, <3>2, <3>3
  <2> QED
    BY <2>1, <2>2, <2>3, Zenon
<1>5. value \in [Ids -> [Components -> Values \cup {Default}]]
  BY WorldFacts
<1> HIDE DEF alive, gen, has, value
<1>6. v \in WorldSet /\ v.alive = alive /\ v.gen = gen /\ v.has = has
  <2>1. w \in WorldSet
    BY WorldFacts
  <2>2. v.alive = alive /\ v.gen = gen /\ v.has = has
    BY <1>1, <2>1 DEF WorldSet
  <2>3. v \in WorldSet
    BY <1>1, <1>2, <1>3, <1>4, <1>5, <2>1, Zenon DEF WorldSet
  <2> QED
    BY <2>2, <2>3
<1> QED
  BY <1>3, <1>4, <1>6 DEF WorldOK

\* ecs_delete leaves no pair that names what is deleted.
LEMMA DeleteOK ==
    ASSUME NEW w, WorldOK(w), NEW e, e.id \in w.alive,
           NEW v, v = Delete(w, e)
    PROVE  WorldOK(v)
<1>1. Doomed(w, e.id) \subseteq w.alive
  BY DoomedFacts
<1> QED
  BY <1>1, WithoutOK DEF Delete

\* ... nor does its cleanup, which leaves no pair that names the entity either.
LEMMA CleanUpOK ==
    ASSUME NEW w, WorldOK(w), NEW e, e.id \in w.alive,
           NEW v, v = CleanUp(w, e)
    PROVE  WorldOK(v) /\ \A id \in Ids : \A p \in v.has[id] \cap Pairs : p.target # e.id
<1> DEFINE doomed == Doomed(w, e.id)
           ids == IF DiesWith(w, e.id, doomed) THEN doomed ELSE doomed \ {e.id}
<1>1. doomed \subseteq w.alive /\ e.id \in doomed /\ ids \subseteq doomed
  BY DoomedFacts
<1>2. v = Without(w, ids, doomed)
  BY DEF CleanUp
<1> HIDE DEF doomed, ids
<1>3. WorldOK(v)
  BY <1>1, <1>2, WithoutOK
<1>4. /\ \A id \in Ids \cap ids : v.has[id] = {}
      /\ \A id \in Ids \ ids : \A c \in v.has[id] : c \in Pairs => c.target \notin doomed
  BY <1>2, WithoutShape
<1> QED
  BY <1>1, <1>3, <1>4

\* ... and the entity can be removed when no pair names it.
LEMMA RemovedOK ==
    ASSUME NEW w, WorldOK(w), NEW e, e.id \in w.alive,
           \A id \in Ids : \A p \in w.has[id] \cap Pairs : p.target # e.id,
           NEW v, v = Removed(w, e)
    PROVE  WorldOK(v)
<1>1. \A i \in w.alive \ {e.id} : \A p \in w.has[i] \cap Pairs : p.target \in {e.id} => p.target \in {}
  BY WorldFacts
<1> QED
  BY <1>1, WithoutOK DEF Removed

\* A command that is executed leaves the world sound: an id that is not valid
\* any more is not added.
LEMMA ApplyOK ==
    ASSUME NEW w, WorldOK(w), NEW c \in CommandSet, Alive(w, c.entity)
    PROVE  WorldOK(Apply(w, c))
<1> DEFINE has == w.has[c.entity.id]  e == c.entity
<1>1. e \in Handles /\ e.id \in w.alive /\ e.id \in Ids
  BY DEF CommandSet, Handles, Alive
<1>2. has \subseteq SoundIds(w)
  BY <1>1, WorldFacts
<1>3. c.kind \in {"Set", "AddModified"} => c.id \in Components /\ c.id \in SoundIds(w)
  BY IdsAssumption DEF CommandSet, SoundIds, AllIds
<1>4. c.kind = "Add" /\ ~Invalid(w, c.id) => c.id \in SoundIds(w)
  BY DEF CommandSet, SoundIds, Invalid
<1>5. c.value \in Values \cup {Default}
  BY DEF CommandSet
<1> HIDE DEF has
<1>6. CASE c.kind = "Add" /\ DeletesEntity(w, c.id)
  <2>1. Apply(w, c) = Delete(w, e)
    BY <1>6 DEF Apply, DeletesEntity
  <2> QED
    BY <1>1, <2>1, DeleteOK
<1>7. CASE c.kind = "Add" /\ ~DeletesEntity(w, c.id)
  <2>1. CASE Invalid(w, c.id)
    BY <1>7, <2>1 DEF Apply
  <2>2. CASE ~Invalid(w, c.id)
    <3>1. Apply(w, c) = Commit(w, e, has \cup {c.id})
      BY <1>7, <2>2 DEF Apply, has
    <3>2. has \cup {c.id} \subseteq SoundIds(w)
      BY <1>2, <1>4, <1>7, <2>2
    <3> QED
      BY <1>1, <3>1, <3>2, CommitOK
  <2> QED
    BY <2>1, <2>2
<1>8. CASE c.kind = "Remove"
  <2>1. Apply(w, c) = Commit(w, e, has \ {c.id})
    BY <1>8 DEF Apply, has
  <2>2. has \ {c.id} \subseteq SoundIds(w)
    BY <1>2
  <2> QED
    BY <1>1, <2>1, <2>2, CommitOK
<1>9. CASE c.kind \in {"Set", "AddModified"}
  <2> DEFINE v == Commit(w, e, has \cup {c.id})
  <2>1. has \cup {c.id} \subseteq SoundIds(w)
    BY <1>2, <1>3, <1>9
  <2>2. WorldOK(v)
    BY <1>1, <2>1, CommitOK
  <2>3. c.kind = "AddModified" => Apply(w, c) = v
    BY DEF Apply, has
  <2>4. c.kind = "Set" => Apply(w, c) = [v EXCEPT !.value[e.id][c.id] = c.value]
    BY DEF Apply, has
  <2> HIDE DEF v
  <2>5. WorldOK([v EXCEPT !.value[e.id][c.id] = c.value])
    <3> DEFINE u == [v EXCEPT !.value[e.id][c.id] = c.value]
               value == [v.value EXCEPT ![e.id][c.id] = c.value]
    <3>1. u = [v EXCEPT !.value = value]
      BY <2>2, WorldFacts DEF WorldSet
    <3>2. value \in [Ids -> [Components -> Values \cup {Default}]]
      BY <1>1, <1>5, <2>2, WorldFacts, Zenon
    <3> HIDE DEF value
    <3>3. u \in WorldSet /\ u.alive = v.alive /\ u.gen = v.gen /\ u.has = v.has
      <4>1. v \in WorldSet
        BY <2>2, WorldFacts
      <4>2. u.alive = v.alive /\ u.gen = v.gen /\ u.has = v.has
        BY <3>1, <4>1 DEF WorldSet
      <4>3. u \in WorldSet
        BY <3>1, <3>2, <4>1, Zenon DEF WorldSet
      <4> QED
        BY <4>2, <4>3
    <3> QED
      BY <2>2, <3>3 DEF WorldOK
  <2> QED
    BY <1>9, <2>2, <2>3, <2>4, <2>5
<1>10. CASE c.kind = "Clear"
  <2>1. Apply(w, c) = Commit(w, e, {})
    BY <1>10 DEF Apply
  <2> QED
    BY <1>1, <2>1, CommitOK
<1>11. CASE c.kind = "Delete"
  <2>1. Apply(w, c) = Delete(w, e)
    BY <1>11 DEF Apply
  <2> QED
    BY <1>1, <2>1, DeleteOK
<1>12. CASE c.kind \in {"Modified", "Skip"}
  BY <1>12 DEF Apply
<1>13. c.kind \in Kinds
  BY DEF CommandSet
<1> QED
  BY <1>6, <1>7, <1>8, <1>9, <1>10, <1>11, <1>12, <1>13 DEF Kinds

\* A value that is written while the command is queued changes nothing else.
LEMMA WrittenOK ==
    ASSUME NEW w, WorldOK(w), NEW c \in CommandSet, NEW v, v = Written(w, c)
    PROVE  WorldOK(v) /\ v.alive = w.alive /\ v.gen = w.gen /\ v.has = w.has
<1> DEFINE value == [w.value EXCEPT ![c.entity.id][c.id] = c.value]
<1>1. c.value \in Values \cup {Default}
  BY DEF CommandSet
<1>2. value \in [Ids -> [Components -> Values \cup {Default}]]
  BY <1>1, WorldFacts, Zenon
<1>3. [w EXCEPT !.value[c.entity.id][c.id] = c.value] = [w EXCEPT !.value = value]
  BY WorldFacts DEF WorldSet
<1> HIDE DEF value
<1>4. CASE WritesAtOnce(w, c)
  <2>1. v = [w EXCEPT !.value = value]
    BY <1>3, <1>4 DEF Written
  <2>2. v \in WorldSet /\ v.alive = w.alive /\ v.gen = w.gen /\ v.has = w.has
    BY <1>2, <2>1, WorldFacts DEF WorldSet
  <2> QED
    BY <2>2 DEF WorldOK
<1>5. CASE ~WritesAtOnce(w, c)
  BY <1>5 DEF Written
<1> QED
  BY <1>4, <1>5

-----------------------------------------------------------------------------
(* Batches                                                                   *)

\* A command of a batch adds what may be added, or nothing.
LEMMA TypeAfterOK ==
    ASSUME NEW w, NEW c \in CommandSet, NEW before, before \subseteq SoundIds(w)
    PROVE  TypeAfter(w, c, before) \subseteq SoundIds(w)
<1>1. CASE Invalid(w, c.id)
  BY <1>1 DEF TypeAfter
<1>2. CASE ~Invalid(w, c.id)
  <2>1. c.kind \in {"Add", "Set", "AddModified"} => c.id \in SoundIds(w)
    BY <1>2 DEF CommandSet, SoundIds, Invalid, AllIds
  <2>2. CASE c.kind \in {"Add", "Set", "AddModified"}
    <3>1. TypeAfter(w, c, before) = before \cup {c.id}
      BY <1>2, <2>2 DEF TypeAfter
    <3> QED
      BY <2>1, <2>2, <3>1
  <2>3. CASE c.kind = "Remove"
    <3>1. TypeAfter(w, c, before) = before \ {c.id}
      BY <1>2, <2>3 DEF TypeAfter
    <3> QED
      BY <3>1
  <2>4. CASE c.kind = "Clear"
    <3>1. TypeAfter(w, c, before) = {}
      BY <1>2, <2>4 DEF TypeAfter
    <3> QED
      BY <3>1
  <2>5. CASE c.kind \notin {"Add", "Set", "AddModified", "Remove", "Clear"}
    <3>1. TypeAfter(w, c, before) = before
      BY <1>2, <2>5 DEF TypeAfter
    <3> QED
      BY <3>1
  <2> QED
    BY <2>2, <2>3, <2>4, <2>5
<1> QED
  BY <1>1, <1>2

\* The type that the walk over the commands has at j, from the one before.
TypeAt(w, q, i, j, before) ==
    IF j - 1 \in Chain(q, i) THEN TypeAfter(w, q[j - 1], before) ELSE before

IsWalk(f, w, q, i, base) ==
    f = [j \in i .. Len(q) + 1 |-> IF j = i THEN base ELSE TypeAt(w, q, i, j, f[j - 1])]

\* The walk is defined: by induction on the number of commands, there is a
\* function as BatchTypes calls for.
LEMMA WalkExists ==
    ASSUME NEW w, NEW q \in Seq(CommandSet), NEW i \in 1 .. Len(q), NEW base,
           base \subseteq SoundIds(w)
    PROVE  \E f : IsWalk(f, w, q, i, base)
<1> DEFINE L == Len(q) + 1
           Walk(n) == \E f \in [i .. n -> SUBSET SoundIds(w)] :
                         f[i] = base /\ \A j \in i + 1 .. n : f[j] = TypeAt(w, q, i, j, f[j - 1])
<1>1. L \in Nat /\ i \in Nat /\ i <= L
  OBVIOUS
<1>2. ASSUME NEW j \in i + 1 .. L, NEW before \in SUBSET SoundIds(w)
      PROVE  TypeAt(w, q, i, j, before) \in SUBSET SoundIds(w)
  <2>1. CASE j - 1 \in Chain(q, i)
    <3>1. q[j - 1] \in CommandSet
      BY <1>1
    <3> QED
      BY <2>1, <3>1, TypeAfterOK DEF TypeAt
  <2>2. CASE j - 1 \notin Chain(q, i)
    BY <2>2 DEF TypeAt
  <2> QED
    BY <2>1, <2>2
<1> HIDE DEF L
<1>3. Walk(i)
  <2> DEFINE f == [j \in i .. i |-> base]
  <2>1. f \in [i .. i -> SUBSET SoundIds(w)] /\ f[i] = base
    BY <1>1
  <2>2. \A j \in i + 1 .. i : FALSE
    BY <1>1
  <2> HIDE DEF f
  <2> QED
    BY <2>1, <2>2
<1>4. ASSUME NEW n \in i .. L - 1, Walk(n) PROVE Walk(n + 1)
  <2>1. PICK f \in [i .. n -> SUBSET SoundIds(w)] :
           f[i] = base /\ \A j \in i + 1 .. n : f[j] = TypeAt(w, q, i, j, f[j - 1])
    BY <1>4
  <2> DEFINE next == TypeAt(w, q, i, n + 1, f[n])
             g == [j \in i .. n + 1 |-> IF j = n + 1 THEN next ELSE f[j]]
  <2>2. n + 1 \in i + 1 .. L /\ n \in i .. n /\ n \in Nat /\ n + 1 # i /\ i \in i .. n + 1
    BY <1>1
  <2>3. next \in SUBSET SoundIds(w)
    BY <1>2, <2>1, <2>2
  <2> HIDE DEF next
  <2>4. g \in [i .. n + 1 -> SUBSET SoundIds(w)] /\ g[i] = base
    BY <1>1, <2>1, <2>2, <2>3
  <2>5. ASSUME NEW j \in i + 1 .. n + 1 PROVE g[j] = TypeAt(w, q, i, j, g[j - 1])
    <3>1. CASE j = n + 1
      <4>1. g[j] = next /\ g[j - 1] = f[n] /\ j - 1 = n
        BY <2>2, <3>1
      <4> QED
        BY <3>1, <4>1 DEF next
    <3>2. CASE j # n + 1
      <4>1. j \in i + 1 .. n /\ g[j] = f[j] /\ g[j - 1] = f[j - 1]
        BY <1>1, <2>2, <3>2
      <4> QED
        BY <2>1, <4>1
    <3> QED
      BY <3>1, <3>2
  <2> HIDE DEF g
  <2> QED
    BY <2>4, <2>5
<1> HIDE DEF Walk
<1>5. Walk(L)
  <2> DEFINE S == {n \in i .. L : ~Walk(n)}
  <2> SUFFICES ASSUME S # {} PROVE FALSE
    BY <1>1
  <2>1. S \in SUBSET Nat
    BY <1>1
  <2> HIDE DEF S
  <2>2. PICK n \in S : \A m \in S : n <= m
    BY <2>1, SmallestOf
  <2>3. n \in i .. L /\ ~Walk(n) /\ n # i
    BY <1>3, <2>2, Zenon DEF S
  <2>4. n - 1 \in i .. L - 1 /\ (n - 1) + 1 = n
    BY <1>1, <2>3
  <2>5. n - 1 \notin S
    BY <1>1, <2>2, <2>3
  <2>6. Walk(n - 1)
    BY <1>1, <2>4, <2>5 DEF S
  <2>7. Walk((n - 1) + 1)
    BY <1>4, <2>4, <2>6
  <2> QED
    BY <2>3, <2>4, <2>7
<1>6. PICK f \in [i .. L -> SUBSET SoundIds(w)] :
         f[i] = base /\ \A j \in i + 1 .. L : f[j] = TypeAt(w, q, i, j, f[j - 1])
  BY <1>5, Zenon DEF Walk
<1>7. f = [j \in i .. L |-> IF j = i THEN base ELSE TypeAt(w, q, i, j, f[j - 1])]
  <2>1. \A j \in i .. L : f[j] = IF j = i THEN base ELSE TypeAt(w, q, i, j, f[j - 1])
    BY <1>1, <1>6
  <2> QED
    BY <1>6, <2>1
<1> QED
  BY <1>7 DEF L, IsWalk

\* The walk over the commands of a batch.
LEMMA BatchWalk ==
    ASSUME NEW w, WorldOK(w), NEW q \in Seq(CommandSet), NEW i \in 1 .. Len(q),
           NEW type, type = BatchTypes(w, q, i)
    PROVE  /\ w.has[q[i].entity.id] \subseteq SoundIds(w)
           /\ type[i] = w.has[q[i].entity.id]
           /\ \A j \in i + 1 .. Len(q) + 1 : type[j] = TypeAt(w, q, i, j, type[j - 1])
<1> DEFINE base == w.has[q[i].entity.id]  L == Len(q) + 1
<1>1. base \subseteq SoundIds(w)
  <2>1. q[i].entity.id \in Ids
    BY DEF CommandSet, Handles
  <2> QED
    BY <2>1, WorldFacts
<1>2. L \in Nat /\ i \in Nat /\ i <= L
  OBVIOUS
<1>3. type = CHOOSE f : IsWalk(f, w, q, i, base)
  BY DEF BatchTypes, TypeAt, IsWalk
<1> HIDE DEF base
<1>4. \E f : IsWalk(f, w, q, i, base)
  BY <1>1, WalkExists, Zenon
<1>5. IsWalk(type, w, q, i, base)
  BY <1>3, <1>4
<1> HIDE DEF L
<1>6. type[i] = base /\ \A j \in i + 1 .. L : type[j] = TypeAt(w, q, i, j, type[j - 1])
  BY <1>2, <1>5 DEF IsWalk, L
<1> QED
  BY <1>1, <1>6 DEF base, L

\* The type a batch commits is one the entity may have.
LEMMA BatchedTypeOK ==
    ASSUME NEW w, WorldOK(w), NEW q \in Seq(CommandSet), NEW i \in 1 .. Len(q)
    PROVE  BatchedType(w, q, i) \subseteq SoundIds(w)
<1> DEFINE base == w.has[q[i].entity.id]  L == Len(q) + 1
           type == BatchTypes(w, q, i)
<1>1. base \subseteq SoundIds(w)
  BY BatchWalk
<1>2. L \in Nat /\ i \in Nat /\ i <= L
  OBVIOUS
<1>6. type[i] = base /\ \A j \in i + 1 .. L : type[j] = TypeAt(w, q, i, j, type[j - 1])
  BY BatchWalk
<1> HIDE DEF base, type, L
<1>7. ASSUME NEW j \in i + 1 .. L, type[j - 1] \subseteq SoundIds(w)
      PROVE  type[j] \subseteq SoundIds(w)
  <2>1. q[j - 1] \in CommandSet
    BY <1>2 DEF L
  <2>2. type[j] = TypeAt(w, q, i, j, type[j - 1])
    BY <1>6
  <2> QED
    BY <1>7, <2>1, <2>2, TypeAfterOK DEF TypeAt
<1>8. type[L] \subseteq SoundIds(w)
  <2> DEFINE S == {n \in i .. L : ~(type[n] \subseteq SoundIds(w))}
  <2> SUFFICES ASSUME S # {} PROVE FALSE
    BY <1>2
  <2>1. S \in SUBSET Nat
    BY <1>2
  <2> HIDE DEF S
  <2>2. PICK n \in S : \A m \in S : n <= m
    BY <2>1, SmallestOf
  <2>3. n \in i .. L /\ ~(type[n] \subseteq SoundIds(w)) /\ n # i
    BY <1>1, <1>6, <2>2 DEF S
  <2>4. n \in i + 1 .. L /\ n - 1 \in i .. L
    BY <1>2, <2>3
  <2>5. n - 1 \notin S
    BY <1>2, <2>2, <2>3
  <2>6. type[n - 1] \subseteq SoundIds(w)
    BY <2>4, <2>5 DEF S
  <2> QED
    BY <1>7, <2>3, <2>4, <2>6
<1> QED
  BY <1>8 DEF BatchedType, type, L

\* Of a set of numbers with a bound, one is the greatest.
LEMMA LargestOf ==
    ASSUME NEW a \in Nat, NEW b \in Nat, NEW S \in SUBSET (a .. b), S # {}
    PROVE  \E n \in S : \A m \in S : m <= n
<1> DEFINE T == {b - n : n \in S}
<1>1. T \in SUBSET Nat /\ T # {}
  OBVIOUS
<1>2. PICK t \in T : \A u \in T : t <= u
  <2> HIDE DEF T
  <2> QED
    BY <1>1, SmallestOf
<1>3. PICK n \in S : t = b - n
  BY <1>2
<1>4. ASSUME NEW m \in S PROVE m <= n
  <2>1. b - m \in T
    OBVIOUS
  <2>2. b - n <= b - m
    BY <1>2, <1>3, <2>1, Zenon
  <2> QED
    BY <2>2
<1> QED
  BY <1>4

\* The last value that was set is put in place.
LEMMA BatchedValuesOK ==
    ASSUME NEW w, WorldOK(w), NEW q \in Seq(CommandSet), NEW i \in 1 .. Len(q),
           NEW v, v = BatchedValues(w, q, i)
    PROVE  WorldOK(v) /\ v.alive = w.alive /\ v.gen = w.gen
<1> DEFINE e == q[i].entity
           Sets(c) == {j \in Chain(q, i) : q[j].kind = "Set" /\ q[j].id = c}
           Last(c) == CHOOSE j \in Sets(c) : \A k \in Sets(c) : k <= j
           Value(c) == IF c \in w.has[e.id] /\ Sets(c) # {} THEN q[Last(c)].value ELSE w.value[e.id][c]
           value == [w.value EXCEPT ![e.id] = [c \in Components |-> Value(c)]]
<1>1. e.id \in Ids
  BY DEF CommandSet, Handles
<1>2. Chain(q, i) \subseteq i .. Len(q)
  BY DEF Chain
<1>3. ASSUME NEW c, Sets(c) # {} PROVE q[Last(c)].value \in Values \cup {Default}
  <2>1. Sets(c) \in SUBSET (i .. Len(q)) /\ i \in Nat /\ Len(q) \in Nat
    BY <1>2
  <2> HIDE DEF Sets
  <2>2. \E j \in Sets(c) : \A k \in Sets(c) : k <= j
    BY <1>3, <2>1, LargestOf, Zenon
  <2>3. Last(c) \in Sets(c)
    BY <2>2
  <2> HIDE DEF Last
  <2>4. Last(c) \in 1 .. Len(q)
    BY <2>1, <2>3
  <2>5. q[Last(c)] \in CommandSet
    BY <2>4
  <2> QED
    BY <2>5 DEF CommandSet
<1> HIDE DEF Sets, Last
<1>4. ASSUME NEW c \in Components PROVE Value(c) \in Values \cup {Default}
  <2>1. w.value[e.id] \in [Components -> Values \cup {Default}]
    BY <1>1, WorldFacts
  <2> QED
    BY <1>3, <2>1
<1>5. v = [w EXCEPT !.value = value]
  BY WorldFacts DEF BatchedValues, Sets, Last, WorldSet
<1> HIDE DEF Value
<1>6. value \in [Ids -> [Components -> Values \cup {Default}]]
  BY <1>4, WorldFacts, Zenon
<1> HIDE DEF value
<1>7. w \in WorldSet
  BY WorldFacts
<1>8. v.alive = w.alive /\ v.gen = w.gen /\ v.has = w.has
  BY <1>5, <1>7 DEF WorldSet
<1>9. v \in WorldSet
  BY <1>5, <1>6, <1>7, Zenon DEF WorldSet
<1> QED
  BY <1>8, <1>9 DEF WorldOK

\* Commands that a batch has marked are those that they were.
SameCommands(q, r) ==
    /\ r \in Seq(CommandSet) /\ Len(r) = Len(q)
    /\ \A j \in 1 .. Len(q) : r[j].entity = q[j].entity /\ r[j].entry = q[j].entry

\* The commit of a batch marks its commands.
LEMMA BatchedFacts ==
    ASSUME NEW q \in Seq(CommandSet), NEW i
    PROVE  SameCommands(q, Batched(q, i))
<1> DEFINE r == Batched(q, i)
           Mark(j) == IF j \in Chain(q, i) THEN [q[j] EXCEPT !.kind = BatchedKind(q[j])] ELSE q[j]
<1>1. ASSUME NEW j \in 1 .. Len(q)
      PROVE  Mark(j) \in CommandSet /\ Mark(j).entity = q[j].entity /\ Mark(j).entry = q[j].entry
  <2> DEFINE c == q[j]  k == BatchedKind(c)
  <2>1. c \in CommandSet
    OBVIOUS
  <2>2. /\ k \in Kinds /\ k \notin {"Add", "Remove", "AddModified"}
        /\ k = "Set" => c.kind = "Set"
    BY <2>1 DEF BatchedKind, CommandSet, Kinds
  <2> HIDE DEF c, k
  <2>3. /\ [c EXCEPT !.kind = k] \in CommandSet
        /\ [c EXCEPT !.kind = k].entity = c.entity /\ [c EXCEPT !.kind = k].entry = c.entry
    BY <2>1, <2>2, Zenon DEF CommandSet
  <2> QED
    BY <2>1, <2>3 DEF c, k
<1>2. r = [j \in 1 .. Len(q) |-> Mark(j)]
  BY DEF Batched
<1> HIDE DEF r, Mark
<1>3. r \in Seq(CommandSet) /\ Len(r) = Len(q) /\ \A j \in 1 .. Len(q) : r[j] = Mark(j)
  BY <1>1, <1>2
<1> QED
  BY <1>1, <1>3 DEF SameCommands, r

\* ... and so do the values that are put in place.
LEMMA BatchedSetsFacts ==
    ASSUME NEW w, NEW q \in Seq(CommandSet), NEW i
    PROVE  SameCommands(q, BatchedSets(w, q, i))
<1> DEFINE r == BatchedSets(w, q, i)
           Mark(j) == IF j \in Chain(q, i) /\ q[j].kind = "Set"
                      THEN [q[j] EXCEPT !.kind = IF q[j].id \in w.has[q[i].entity.id]
                                                 THEN "Modified" ELSE "Skip"]
                      ELSE q[j]
<1>1. ASSUME NEW j \in 1 .. Len(q)
      PROVE  Mark(j) \in CommandSet /\ Mark(j).entity = q[j].entity /\ Mark(j).entry = q[j].entry
  <2> DEFINE c == q[j]  k == IF q[j].id \in w.has[q[i].entity.id] THEN "Modified" ELSE "Skip"
  <2>1. c \in CommandSet
    OBVIOUS
  <2>2. k \in {"Modified", "Skip"}
    OBVIOUS
  <2>3. Mark(j) = IF j \in Chain(q, i) /\ c.kind = "Set" THEN [c EXCEPT !.kind = k] ELSE c
    OBVIOUS
  <2>4. c = q[j]
    OBVIOUS
  <2> HIDE DEF c, k, Mark
  <2>5. /\ [c EXCEPT !.kind = k] \in CommandSet
        /\ [c EXCEPT !.kind = k].entity = c.entity /\ [c EXCEPT !.kind = k].entry = c.entry
    BY <2>1, <2>2, Zenon DEF CommandSet, Kinds
  <2> QED
    BY <2>1, <2>3, <2>4, <2>5
<1>2. r = [j \in 1 .. Len(q) |-> Mark(j)]
  BY DEF BatchedSets
<1> HIDE DEF r, Mark
<1>3. r \in Seq(CommandSet) /\ Len(r) = Len(q) /\ \A j \in 1 .. Len(q) : r[j] = Mark(j)
  BY <1>1, <1>2
<1> QED
  BY <1>1, <1>3 DEF SameCommands, r

-----------------------------------------------------------------------------
(* Observers                                                                 *)

\* A handle that is made of a world's id.
LEMMA HandleTyped ==
    ASSUME NEW w, WorldOK(w), NEW id \in Ids
    PROVE  Handle(w, id) \in Handles
<1>1. w.gen[id] \in 0 .. MaxGen + 1
  BY WorldFacts
<1> QED
  BY <1>1 DEF Handle, Handles

\* The entities of events have handles.
LEMMA EventsTyped ==
    ASSUME NEW w, WorldOK(w), NEW v, WorldOK(v), NEW sets, \A y \in sets : y[1] \in Ids,
           NEW ev \in Events(w, v, sets)
    PROVE  ev.entity \in Handles
<1> DEFINE A == UNION {{[on |-> "OnAdd", entity |-> Handle(v, id), id |-> c] :
                            c \in v.has[id] \ w.has[id]} : id \in Ids}
           B == UNION {{[on |-> "OnRemove", entity |-> Handle(w, id), id |-> c] :
                            c \in w.has[id] \ v.has[id]} : id \in Ids}
           C == {[on |-> "OnSet", entity |-> Handle(v, x[1]), id |-> x[2]] :
                    x \in {y \in sets : y[2] \in v.has[y[1]]}}
<1>1. ASSUME ev \in A PROVE ev.entity \in Handles
  <2>1. \E id \in Ids : \E c : ev = [on |-> "OnAdd", entity |-> Handle(v, id), id |-> c]
    BY <1>1
  <2> QED
    BY <2>1, HandleTyped
<1>2. ASSUME ev \in B PROVE ev.entity \in Handles
  <2>1. \E id \in Ids : \E c : ev = [on |-> "OnRemove", entity |-> Handle(w, id), id |-> c]
    BY <1>2
  <2> QED
    BY <2>1, HandleTyped
<1>3. ASSUME ev \in C PROVE ev.entity \in Handles
  <2>1. \E y \in sets : ev = [on |-> "OnSet", entity |-> Handle(v, y[1]), id |-> y[2]]
    BY <1>3
  <2> QED
    BY <2>1, HandleTyped
<1>4. Events(w, v, sets) = A \cup B \cup C
  BY DEF Events
<1> HIDE DEF A, B, C
<1> QED
  BY <1>1, <1>2, <1>3, <1>4

\* An observer's answer is a command.
LEMMA AnswerOK ==
    ASSUME NEW w, WorldOK(w), NEW r \in Reactions, NEW ev, ev.entity \in Handles,
           Answers(r, ev, w), NEW c, c = Answer(r, ev, w)
    PROVE  NewCommand(c)
<1> DEFINE e == IF r.target = Self THEN ev.entity ELSE Handle(w, r.target)
<1>1. e \in Handles
  <2>1. CASE r.target = Self
    BY <2>1
  <2>2. CASE r.target # Self
    <3>1. r.target \in Ids
      BY <2>2, WorldFacts DEF Answers
    <3> QED
      BY <2>2, <3>1, HandleTyped
  <2> QED
    BY <2>1, <2>2
<1>2. c = [op |-> r.op, kind |-> r.op, entity |-> e, id |-> r.operand, value |-> r.value,
           next |-> 0, entry |-> FALSE]
  BY DEF Answer, Command
<1> HIDE DEF e
<1>3. /\ r.op \in {"Add", "Remove", "Set", "Clear", "Delete"} /\ r.value \in Values \cup {Default}
      /\ r.operand \in AllIds \cup {NoId}
      /\ r.op \in {"Add", "Remove"} => r.operand \in AllIds
      /\ r.op = "Set" => r.operand \in Components
  BY ReactionsAssumption DEF AllIds
<1>4. r.op \in Kinds /\ r.op # "AddModified"
  BY <1>3 DEF Kinds
<1> QED
  BY <1>1, <1>2, <1>3, <1>4 DEF NewCommand, CommandSet

\* Two assignments of stages are deferred alike.
SameDefers(st, r) == \A s \in Stages : r[s].defer = st[s].defer

\* A step of stage s, with what observers queue on the first stage.
Moves(s) == SameDefers(stage, stage') /\ \A t \in Stages \ {0, s} : stage'[t] = stage[t]

\* What comes of an operation on the world: stages as sound as before, but that
\* the first may have one more command.
LEMMA OutcomesOK ==
    ASSUME 0 \in Stages, WorldOK(world), NEW w, WorldOK(w), NEW st, StagesOK(st),
           NEW events, \A ev \in events : ev.entity \in Handles,
           NEW o \in Outcomes(w, st, events)
    PROVE  /\ WorldOK(o.world)
           /\ StagesOK(o.stage) /\ SameDefers(st, o.stage)
           /\ \A s \in Stages \ {0} : o.stage[s] = st[s]
           /\ o.stage[0].at = st[0].at /\ o.stage[0].flushed = st[0].flushed
           /\ o.stage[0].stale = st[0].stale
<1> DEFINE Seen(ev) == IF ev.on = "OnRemove" THEN world ELSE w
           Answered(x) == x \in events \X Reactions /\ Answers(x[2], x[1], Seen(x[1]))
           Outcome(x) == LET c == Answer(x[2], x[1], Seen(x[1]))
                         IN  [world |-> Written(w, c), stage |-> Put(st, 0, Seen(x[1]), c),
                              reacted |-> reacted + 1]
<1>1. \/ o = [world |-> w, stage |-> st, reacted |-> reacted]
      \/ \E x : Answered(x) /\ o = Outcome(x)
  BY DEF Outcomes
<1>2. CASE o = [world |-> w, stage |-> st, reacted |-> reacted]
  BY <1>2 DEF SameDefers
<1>3. ASSUME NEW x, Answered(x), o = Outcome(x)
      PROVE  /\ WorldOK(o.world)
             /\ StagesOK(o.stage) /\ SameDefers(st, o.stage)
             /\ \A s \in Stages \ {0} : o.stage[s] = st[s]
             /\ o.stage[0].at = st[0].at /\ o.stage[0].flushed = st[0].flushed
             /\ o.stage[0].stale = st[0].stale
  <2> DEFINE seen == Seen(x[1])  c == Answer(x[2], x[1], seen)
  <2>1. x[1].entity \in Handles /\ x[2] \in Reactions /\ Answers(x[2], x[1], seen) /\ WorldOK(seen)
    BY <1>3
  <2>2. o.world = Written(w, c) /\ o.stage = Put(st, 0, seen, c)
    BY <1>3
  <2> HIDE DEF seen
  <2>3. NewCommand(c)
    BY <2>1, AnswerOK
  <2> HIDE DEF c
  <2>4. WorldOK(o.world)
    BY <2>2, <2>3, WrittenOK DEF NewCommand
  <2>5. st \in [Stages -> StageSet] /\ StageOK(st[0])
    BY DEF StagesOK
  <2>6. /\ o.stage \in [Stages -> StageSet]
        /\ StageOK(o.stage[0]) /\ o.stage[0].defer = st[0].defer
        /\ o.stage[0].at = st[0].at /\ o.stage[0].flushed = st[0].flushed
        /\ o.stage[0].stale = st[0].stale
        /\ \A t \in Stages \ {0} : o.stage[t] = st[t]
    BY <2>2, <2>3, <2>5, PutFacts
  <2> QED
    BY <2>4, <2>6 DEF StagesOK, SameDefers
<1> HIDE DEF Answered, Outcome
<1> QED
  BY <1>1, <1>2, <1>3

\* The end of an operation flushes the first stage, unless it is being flushed.
LEMMA EndOperationFacts ==
    ASSUME 0 \in Stages, NEW st, StagesOK(st), NEW r, r = EndOperation(st)
    PROVE  /\ StagesOK(r) /\ SameDefers(st, r)
           /\ Emptied(r[0])
           /\ st[0].at # 0 => r = st
           /\ \A s \in Stages \ {0} : r[s] = st[s]
<1>1. CASE st[0].at # 0
  BY <1>1 DEF EndOperation, Emptied, SameDefers
<1>2. CASE st[0].at = 0
  <2>1. r = StartFlush(st, 0)
    BY <1>2 DEF EndOperation
  <2>2. st \in [Stages -> StageSet] /\ QueueOK(st[0])
    BY DEF StagesOK, StageOK
  <2>3. \A id \in Ids : st[0].stale[id] = NoEntry
    BY <1>2, OverFacts DEF StagesOK, StageOK
  <2>4. /\ r \in [Stages -> StageSet]
        /\ StageOK(r[0]) /\ r[0].queue = <<>> /\ r[0].defer = st[0].defer
        /\ \A t \in Stages \ {0} : r[t] = st[t]
    BY <2>1, <2>2, <2>3, StartFlushFacts
  <2> QED
    BY <1>2, <2>4 DEF StagesOK, SameDefers, Emptied
<1> QED
  BY <1>1, <1>2

\* An operation on the world leaves it sound, and no command on a first stage that
\* is not deferred.
LEMMA OperateOK ==
    ASSUME 0 \in Stages, WorldOK(world), NEW w, WorldOK(w), NEW st, StagesOK(st),
           \A s \in Stages \ {0} : Emptied(st[s]),
           NEW events, \A ev \in events : ev.entity \in Handles,
           Operate(w, st, events)
    PROVE  /\ WorldOK(world')
           /\ StagesOK(stage') /\ SameDefers(st, stage')
           /\ \A s \in Stages : Emptied(stage'[s])
           /\ \A s \in Stages \ {0} : stage'[s] = st[s]
<1>1. PICK o \in Outcomes(w, st, events) : world' = o.world /\ stage' = EndOperation(o.stage)
  BY DEF Operate
<1>2. /\ WorldOK(o.world)
      /\ StagesOK(o.stage) /\ SameDefers(st, o.stage)
      /\ \A s \in Stages \ {0} : o.stage[s] = st[s]
  BY OutcomesOK
<1> DEFINE r == EndOperation(o.stage)
<1>3. /\ StagesOK(r) /\ SameDefers(o.stage, r)
      /\ Emptied(r[0])
      /\ \A s \in Stages \ {0} : r[s] = o.stage[s]
  BY <1>2, EndOperationFacts
<1> HIDE DEF r
<1>4. stage' = r
  BY <1>1 DEF r
<1>5. SameDefers(st, r)
  BY <1>2, <1>3 DEF SameDefers
<1>6. \A s \in Stages : Emptied(r[s])
  BY <1>2, <1>3
<1> QED
  BY <1>1, <1>2, <1>3, <1>4, <1>5, <1>6

-----------------------------------------------------------------------------
(* The invariant                                                             *)

\* What the invariant says of the state.
LEMMA InvFacts ==
    ASSUME IInv
    PROVE  /\ 0 \in Stages /\ stageCount \in Nat /\ merging \in 0 .. stageCount
           /\ WorldOK(world) /\ StagesOK(stage) /\ DefersSound
           /\ \A s \in Stages : stage[s] \in StageSet /\ StageOK(stage[s]) /\ Emptied(stage[s])
<1>1. stageCount \in Nat /\ stageCount >= 1 /\ merging \in 0 .. stageCount
  BY BoundsAssumption DEF IInv, DefersSound
<1>2. 0 \in Stages
  BY <1>1 DEF Stages
<1>3. \A s \in Stages : stage[s] \in StageSet /\ StageOK(stage[s])
  BY DEF IInv, StagesOK
<1> QED
  BY <1>1, <1>2, <1>3 DEF IInv

\* A step keeps the invariant if it leaves worlds and stages sound.
LEMMA KeptByParts ==
    ASSUME stageCount' = stageCount, WorldOK(world'), StagesOK(stage'),
           \A s \in Stages : Emptied(stage'[s]), DefersSound'
    PROVE  IInv'
<1>1. Stages' = Stages
  BY DEF Stages
<1>2. WorldOK(world)'
  BY DEF WorldOK
<1>3. StagesOK(stage)'
  BY <1>1 DEF StagesOK, StageOK, QueueOK, Ahead
<1>4. (\A s \in Stages : Emptied(stage[s]))'
  BY <1>1 DEF Emptied
<1> QED
  BY <1>2, <1>3, <1>4 DEF IInv

\* A step that changes no count of nested defers.
LEMMA DefersKept ==
    ASSUME IInv, UNCHANGED <<stageCount, readonly, merging>>, SameDefers(stage, stage')
    PROVE  DefersSound'
<1>1. Stages' = Stages
  BY DEF Stages
<1> QED
  BY <1>1 DEF IInv, DefersSound, SameDefers

\* A stage's count of nested defers changes.
LEMMA DeferFacts ==
    ASSUME NEW st, StagesOK(st), NEW s \in Stages, NEW n \in -MaxDepth .. MaxDepth,
           NEW r, r = [st EXCEPT ![s].defer = n]
    PROVE  /\ StagesOK(r)
           /\ r[s].defer = n /\ r[s].at = st[s].at /\ r[s].queue = st[s].queue
           /\ r[s].stale = st[s].stale
           /\ \A t \in Stages \ {s} : r[t] = st[t]
<1> DEFINE x == st[s]  y == [x EXCEPT !.defer = n]
<1>1. x \in StageSet /\ st \in [Stages -> StageSet]
  BY DEF StagesOK
<1>2. r = [st EXCEPT ![s] = y]
  OBVIOUS
<1>3. /\ y \in StageSet /\ y.defer = n /\ y.at = x.at /\ y.queue = x.queue /\ y.stale = x.stale
      /\ y.flushed = x.flushed /\ y.entries = x.entries
  BY <1>1, Zenon DEF StageSet
<1> HIDE DEF y
<1>4. StageOK(y)
  <2>1. StageOK(x)
    BY DEF StagesOK
  <2>2. QueueOK(y) /\ y.at <= Len(y.flushed)
    BY <1>3, <2>1 DEF StageOK, QueueOK
  <2>3. Ahead(y, y.at)
    BY <1>3, <2>1, Zenon DEF StageOK, Ahead
  <2> QED
    BY <2>2, <2>3 DEF StageOK
<1> QED
  BY <1>1, <1>2, <1>3, <1>4 DEF StagesOK

\* flecs_defer_end on a stage that is not being flushed.
LEMMA DeferEndOfOK ==
    ASSUME IInv, NEW s \in Stages, stage[s].at = 0, stage[s].defer > 0, DeferEndOf(s)
    PROVE  /\ StagesOK(stage') /\ Emptied(stage'[s])
           /\ stage'[s].defer = stage[s].defer - 1
           /\ \A t \in Stages \ {s} : stage'[t] = stage[t]
<1> DEFINE n == stage[s].defer - 1  st == [stage EXCEPT ![s].defer = n]
<1>1. StagesOK(stage) /\ stage[s] \in StageSet /\ stage \in [Stages -> StageSet]
  BY InvFacts DEF StagesOK
<1>2. stage[s].defer \in -MaxDepth .. MaxDepth
  BY <1>1 DEF StageSet
<1>3. n \in -MaxDepth .. MaxDepth /\ (n = 0 <=> EndsDefer(s))
  BY <1>2, BoundsAssumption DEF EndsDefer
<1>4. st = [stage EXCEPT ![s].defer = @ - 1]
  BY <1>1
<1> HIDE DEF n
<1>5. /\ StagesOK(st)
      /\ st[s].defer = n /\ st[s].at = stage[s].at /\ st[s].queue = stage[s].queue
      /\ st[s].stale = stage[s].stale
      /\ \A t \in Stages \ {s} : st[t] = stage[t]
  BY <1>1, <1>3, DeferFacts, Zenon
<1> HIDE DEF st
<1>6. CASE EndsDefer(s)
  <2> DEFINE r == StartFlush(st, s)
  <2>1. stage' = r
    BY <1>4, <1>6 DEF DeferEndOf
  <2>2. st \in [Stages -> StageSet] /\ StageOK(st[s])
    BY <1>5 DEF StagesOK
  <2>3. QueueOK(st[s]) /\ \A id \in Ids : st[s].stale[id] = NoEntry
    BY <1>5, <2>2 DEF StageOK, Ahead
  <2>4. /\ r \in [Stages -> StageSet]
        /\ StageOK(r[s]) /\ r[s].queue = <<>> /\ r[s].defer = st[s].defer
        /\ \A t \in Stages \ {s} : r[t] = st[t]
    BY <2>2, <2>3, StartFlushFacts
  <2> HIDE DEF r
  <2>5. StagesOK(r) /\ Emptied(r[s])
    BY <1>5, <2>4 DEF StagesOK, Emptied
  <2> QED
    BY <1>5, <2>1, <2>4, <2>5 DEF n
<1>7. CASE ~EndsDefer(s)
  <2>1. stage' = st
    BY <1>4, <1>7 DEF DeferEndOf
  <2>2. Emptied(st[s])
    BY <1>3, <1>5, <1>7 DEF Emptied
  <2> QED
    BY <1>5, <2>1, <2>2 DEF n
<1> QED
  BY <1>6, <1>7

\* While no operation is going on, no stage is flushed.
LEMMA IdleFacts ==
    ASSUME IInv, ~Flushing(stage)
    PROVE  \A s \in Stages : stage[s].at = 0
  BY DEF Flushing

\* The commands of game code.
LEMMA CommandsOfFacts ==
    ASSUME WorldOK(world), NEW c \in CommandsOf(LivingEntities)
    PROVE  NewCommand(c) /\ Alive(world, c.entity)
<1>1. \E e \in LivingEntities :
         \/ \E op \in {"Add", "Remove"}, id \in AllIds : c = Command(e, op, id, Default)
         \/ \E id \in Components, v \in Values : c = Command(e, "Set", id, v)
         \/ \E op \in {"Clear", "Delete"} : c = Command(e, op, NoId, Default)
  BY DEF CommandsOf
<1>2. ASSUME NEW e \in LivingEntities PROVE e \in Handles /\ Alive(world, e)
  <2>1. PICK id \in world.alive : e = Handle(world, id)
    BY DEF LivingEntities
  <2>2. id \in Ids
    BY <2>1, WorldFacts
  <2> QED
    BY <2>1, <2>2, HandleTyped DEF Alive, Handle
<1>3. ASSUME NEW e \in LivingEntities, NEW op, NEW id, NEW v \in Values \cup {Default},
             c = Command(e, op, id, v),
             \/ op \in {"Add", "Remove"} /\ id \in AllIds
             \/ op = "Set" /\ id \in Components
             \/ op \in {"Clear", "Delete"} /\ id = NoId
      PROVE  NewCommand(c) /\ Alive(world, c.entity)
  <2>1. c = [op |-> op, kind |-> op, entity |-> e, id |-> id, value |-> v, next |-> 0, entry |-> FALSE]
    BY <1>3 DEF Command
  <2>2. /\ op \in Kinds /\ op # "AddModified" /\ id \in AllIds \cup {NoId}
        /\ op \in {"Add", "Remove"} => id \in AllIds
        /\ op = "Set" => id \in Components
    BY <1>3 DEF Kinds, AllIds
  <2>3. e \in Handles /\ Alive(world, e)
    BY <1>2
  <2> QED
    BY <2>1, <2>2, <2>3 DEF NewCommand, CommandSet
<1> QED
  BY <1>1, <1>3

-----------------------------------------------------------------------------
(* Game code                                                                 *)

\* ecs_defer_begin: the first stage is deferred, which its commands may be left for.
LEMMA DeferBeginKeeps ==
    ASSUME IInv, DeferBegin
    PROVE  IInv'
<1> DEFINE n == stage[0].defer + 1
<1>1. /\ 0 \in Stages /\ WorldOK(world) /\ StagesOK(stage) /\ DefersSound
      /\ \A s \in Stages : Emptied(stage[s])
  BY InvFacts
<1>2. /\ merging = stageCount /\ stage' = [stage EXCEPT ![0].defer = n]
      /\ n \in -MaxDepth .. MaxDepth /\ n > 0
      /\ UNCHANGED <<world, stageCount, readonly, merging>>
  <2>1. stage[0] \in StageSet /\ stage \in [Stages -> StageSet]
    BY <1>1 DEF StagesOK
  <2>2. stage' = [stage EXCEPT ![0].defer = n]
    BY <1>1, <2>1 DEF DeferBegin
  <2> QED
    BY <2>2, BoundsAssumption DEF DeferBegin, Idle
<1> HIDE DEF n
<1>3. /\ StagesOK(stage') /\ stage'[0].defer = n
      /\ \A t \in Stages \ {0} : stage'[t] = stage[t]
  <2> DEFINE r == [stage EXCEPT ![0].defer = n]
  <2>1. StagesOK(stage) /\ 0 \in Stages /\ n \in -MaxDepth .. MaxDepth
    BY <1>1, <1>2
  <2>2. StagesOK(r)
    BY <2>1, DeferFacts
  <2>3. r[0].defer = n
    BY <2>1 DEF StagesOK, StageSet
  <2>4. \A t \in Stages \ {0} : r[t] = stage[t]
    BY <2>1 DEF StagesOK
  <2>5. stage' = r
    BY <1>2
  <2> HIDE DEF r
  <2> QED
    BY <2>2, <2>3, <2>4, <2>5
<1>4. \A s \in Stages : Emptied(stage'[s])
  BY <1>1, <1>2, <1>3 DEF Emptied
<1>5. DefersSound'
  <2>1. Stages' = Stages
    BY <1>2 DEF Stages
  <2> QED
    BY <1>1, <1>2, <1>3, <2>1 DEF DefersSound, DeferBegin, Stages
<1> QED
  BY <1>1, <1>2, <1>3, <1>4, <1>5, KeptByParts

\* ecs_defer_end.
LEMMA DeferEndKeeps ==
    ASSUME IInv, DeferEnd
    PROVE  IInv'
<1>1. /\ 0 \in Stages /\ WorldOK(world) /\ DefersSound
      /\ \A s \in Stages : Emptied(stage[s])
  BY InvFacts
<1>2. /\ merging = stageCount /\ ~readonly /\ stage[0].at = 0
      /\ UNCHANGED <<world, stageCount, readonly, merging>>
  BY <1>1, IdleFacts DEF DeferEnd, Idle
<1>3. /\ StagesOK(stage') /\ Emptied(stage'[0])
      /\ \A t \in Stages \ {0} : stage'[t] = stage[t]
  BY <1>1, <1>2, DeferEndOfOK DEF DeferEnd
<1>4. \A s \in Stages : Emptied(stage'[s])
  BY <1>1, <1>3
<1>5. DefersSound'
  <2>1. Stages' = Stages
    BY <1>2 DEF Stages
  <2> QED
    BY <1>1, <1>2, <1>3, <2>1 DEF DefersSound, Stages
<1> QED
  BY <1>1, <1>2, <1>3, <1>4, <1>5, KeptByParts

\* ecs_defer_suspend and ecs_defer_resume: a count that is not 0 stays so.
LEMMA DeferSuspendKeeps ==
    ASSUME IInv, DeferSuspend
    PROVE  IInv'
<1> DEFINE n == -stage[0].defer
<1>1. /\ 0 \in Stages /\ WorldOK(world) /\ StagesOK(stage) /\ DefersSound
      /\ \A s \in Stages : Emptied(stage[s])
  BY InvFacts
<1>2. /\ merging = stageCount /\ ~readonly /\ stage' = [stage EXCEPT ![0].defer = n]
      /\ n \in -MaxDepth .. MaxDepth /\ n # 0
      /\ UNCHANGED <<world, stageCount, readonly, merging>>
  <2>1. stage[0] \in StageSet /\ stage \in [Stages -> StageSet]
    BY <1>1 DEF StagesOK
  <2>2. stage[0].defer \in -MaxDepth .. MaxDepth
    BY <2>1 DEF StageSet
  <2>3. stage' = [stage EXCEPT ![0].defer = n]
    BY <1>1, <2>1 DEF DeferSuspend
  <2> QED
    BY <2>2, <2>3, BoundsAssumption DEF DeferSuspend, Idle
<1> HIDE DEF n
<1>3. /\ StagesOK(stage') /\ stage'[0].defer = n
      /\ \A t \in Stages \ {0} : stage'[t] = stage[t]
  <2> DEFINE r == [stage EXCEPT ![0].defer = n]
  <2>1. StagesOK(stage) /\ 0 \in Stages /\ n \in -MaxDepth .. MaxDepth
    BY <1>1, <1>2
  <2>2. StagesOK(r)
    BY <2>1, DeferFacts
  <2>3. r[0].defer = n
    BY <2>1 DEF StagesOK, StageSet
  <2>4. \A t \in Stages \ {0} : r[t] = stage[t]
    BY <2>1 DEF StagesOK
  <2>5. stage' = r
    BY <1>2
  <2> HIDE DEF r
  <2> QED
    BY <2>2, <2>3, <2>4, <2>5
<1>4. \A s \in Stages : Emptied(stage'[s])
  BY <1>1, <1>2, <1>3 DEF Emptied
<1>5. DefersSound'
  <2>1. Stages' = Stages
    BY <1>2 DEF Stages
  <2> QED
    BY <1>1, <1>2, <1>3, <2>1 DEF DefersSound, Stages
<1> QED
  BY <1>1, <1>2, <1>3, <1>4, <1>5, KeptByParts

\* ecs_readonly_begin: every stage is deferred once.
LEMMA ReadonlyBeginKeeps ==
    ASSUME IInv, ReadonlyBegin
    PROVE  IInv'
<1>1. /\ 0 \in Stages /\ WorldOK(world) /\ StagesOK(stage) /\ DefersSound
      /\ \A s \in Stages : stage[s] \in StageSet /\ StageOK(stage[s])
  BY InvFacts
<1>2. /\ merging = stageCount /\ readonly' = TRUE /\ stage[0].defer = 0
      /\ stage' = [s \in Stages |-> [stage[s] EXCEPT !.defer = @ + 1]]
      /\ UNCHANGED <<world, stageCount, merging>>
  BY DEF ReadonlyBegin, Idle
<1>3. \A s \in Stages : stage[s].defer = 0
  BY <1>1, <1>2 DEF DefersSound, ReadonlyBegin, Stages
<1>4. ASSUME NEW s \in Stages
      PROVE  stage'[s] \in StageSet /\ StageOK(stage'[s]) /\ stage'[s].defer = 1
  <2> DEFINE x == stage[s]  y == [x EXCEPT !.defer = 1]
  <2>1. 1 \in -MaxDepth .. MaxDepth
    BY BoundsAssumption
  <2>2. x \in StageSet /\ StageOK(x) /\ x.defer + 1 = 1
    BY <1>1, <1>3
  <2>3. stage'[s] = y
    BY <1>2, <2>2
  <2> HIDE DEF x
  <2>4. /\ y \in StageSet /\ y.defer = 1 /\ y.at = x.at /\ y.queue = x.queue
        /\ y.stale = x.stale /\ y.flushed = x.flushed /\ y.entries = x.entries
    BY <2>1, <2>2 DEF StageSet
  <2> HIDE DEF y
  <2>5. StageOK(y)
    BY <2>2, <2>4 DEF StageOK, QueueOK, Ahead
  <2> QED
    BY <2>3, <2>4, <2>5
<1>5. StagesOK(stage')
  BY <1>2, <1>4 DEF StagesOK
<1>6. \A s \in Stages : Emptied(stage'[s])
  BY <1>4 DEF Emptied
<1>7. DefersSound'
  <2>1. Stages' = Stages
    BY <1>2 DEF Stages
  <2> QED
    BY <1>1, <1>2, <1>4, <2>1 DEF DefersSound
<1> QED
  BY <1>1, <1>2, <1>5, <1>6, <1>7, KeptByParts

\* ecs_readonly_end: no stage has been merged yet, and all are deferred.
LEMMA ReadonlyEndKeeps ==
    ASSUME IInv, ReadonlyEnd
    PROVE  IInv'
<1>1. /\ stageCount \in Nat /\ WorldOK(world) /\ StagesOK(stage) /\ DefersSound
      /\ \A s \in Stages : Emptied(stage[s])
  BY InvFacts
<1>2. /\ readonly /\ readonly' = FALSE /\ merging' = 0
      /\ UNCHANGED <<world, stageCount, stage>>
  BY DEF ReadonlyEnd
<1>3. DefersSound'
  <2>1. Stages' = Stages
    BY <1>2 DEF Stages
  <2>2. \A s \in Stages : s >= 0
    BY <1>1 DEF Stages
  <2>3. \A s \in Stages : stage'[s].defer = 1
    BY <1>1, <1>2 DEF DefersSound
  <2>4. stageCount' \in 1 .. MaxStages /\ merging' \in 0 .. stageCount'
    BY <1>1, <1>2 DEF DefersSound
  <2> QED
    BY <1>2, <2>1, <2>2, <2>3, <2>4, Zenon DEF DefersSound
<1> QED
  BY <1>1, <1>2, <1>3, KeptByParts

\* flecs_stage_merge: the stage was deferred once, and is flushed.
LEMMA MergeStageKeeps ==
    ASSUME IInv, MergeStage
    PROVE  IInv'
<1>1. /\ stageCount \in Nat /\ WorldOK(world) /\ DefersSound /\ merging \in 0 .. stageCount
      /\ \A s \in Stages : Emptied(stage[s])
  BY InvFacts
<1>2. /\ merging < stageCount /\ merging' = merging + 1
      /\ DeferEndOf(merging) /\ UNCHANGED <<world, stageCount, readonly>>
  BY DEF MergeStage
<1>3. merging \in Stages /\ stage[merging].at = 0
  <2>1. merging \in Stages
    BY <1>1, <1>2 DEF Stages
  <2> QED
    BY <2>1, IdleFacts DEF MergeStage
<1>4. ~readonly /\ stage[merging].defer = 1
  BY <1>1, <1>2, <1>3 DEF DefersSound
<1>5. /\ StagesOK(stage') /\ Emptied(stage'[merging])
      /\ stage'[merging].defer = 0
      /\ \A t \in Stages \ {merging} : stage'[t] = stage[t]
  BY <1>2, <1>3, <1>4, DeferEndOfOK
<1>6. \A s \in Stages : Emptied(stage'[s])
  BY <1>1, <1>5
<1>7. DefersSound'
  <2>1. Stages' = Stages
    BY <1>2 DEF Stages
  <2>2. merging + 1 \in 0 .. stageCount
    BY <1>1, <1>2
  <2>3. ASSUME NEW s \in Stages
        PROVE  IF s >= merging + 1 THEN stage'[s].defer = 1
               ELSE s # 0 \/ merging + 1 < stageCount => stage'[s].defer = 0
    <3>1. CASE s = merging
      BY <1>1, <1>5, <3>1
    <3>2. CASE s # merging
      BY <1>1, <1>2, <1>4, <1>5, <3>2 DEF DefersSound, Stages
    <3> QED
      BY <3>1, <3>2
  <2> QED
    BY <1>1, <1>2, <1>4, <2>1, <2>2, <2>3 DEF DefersSound
<1> QED
  BY <1>1, <1>2, <1>5, <1>6, <1>7, KeptByParts

\* An operation on a deferred stage: a command is chained.
LEMMA DeferKeeps ==
    ASSUME IInv, NEW c \in CommandsOf(LivingEntities), NEW s \in Stages, Defer(s, c)
    PROVE  IInv'
<1>1. WorldOK(world) /\ StagesOK(stage) /\ \A t \in Stages : Emptied(stage[t])
  BY InvFacts
<1>2. NewCommand(c) /\ c \in CommandSet
  BY <1>1, CommandsOfFacts DEF NewCommand
<1>3. /\ stage[s].defer > 0 /\ stage' = Put(stage, s, world, c) /\ world' = Written(world, c)
      /\ UNCHANGED <<stageCount, readonly, merging>>
  BY DEF Defer
<1>4. WorldOK(world')
  BY <1>1, <1>2, <1>3, WrittenOK
<1>5. stage \in [Stages -> StageSet] /\ StageOK(stage[s])
  BY <1>1 DEF StagesOK
<1>6. /\ stage' \in [Stages -> StageSet]
      /\ StageOK(stage'[s]) /\ stage'[s].defer = stage[s].defer
      /\ \A t \in Stages \ {s} : stage'[t] = stage[t]
  BY <1>2, <1>3, <1>5, PutFacts
<1>7. StagesOK(stage') /\ SameDefers(stage, stage')
  BY <1>1, <1>6 DEF StagesOK, SameDefers
<1>8. \A t \in Stages : Emptied(stage'[t])
  BY <1>1, <1>3, <1>6 DEF Emptied
<1> QED
  BY <1>3, <1>4, <1>7, <1>8, DefersKept, KeptByParts

\* The events of a command.
LEMMA EventsOfTyped ==
    ASSUME NEW v, WorldOK(v), NEW w, WorldOK(w), NEW c \in CommandSet
    PROVE  \A ev \in EventsOf(v, c, w) : ev.entity \in Handles
<1> DEFINE sets == IF c.kind \in {"Set", "AddModified", "Modified"}
                   THEN {<<c.entity.id, c.id>>} ELSE {}
<1>1. c.entity.id \in Ids
  BY DEF CommandSet, Handles
<1>2. \A y \in sets : y[1] \in Ids
  BY <1>1
<1>3. EventsOf(v, c, w) = IF Alive(world, c.entity) THEN Events(v, w, sets) ELSE {}
  BY DEF EventsOf
<1> HIDE DEF sets
<1> QED
  BY <1>2, <1>3, EventsTyped

\* What ecs_delete leaves to do when its cleanup was flushed is sound.
LEMMA CleanedUpOK ==
    ASSUME WorldOK(world), NEW c, Alive(world, c.entity)
    PROVE  WorldOK(CleanedUp(c))
  BY CleanUpOK DEF CleanedUp, Alive

\* An operation on the world, with what its observers queue.
LEMMA DirectKeeps ==
    ASSUME IInv, NEW c \in CommandsOf(LivingEntities), Direct(c)
    PROVE  IInv' /\ Moves(0)
<1> DEFINE w == Apply(world, c)
<1>1. /\ 0 \in Stages /\ WorldOK(world) /\ StagesOK(stage)
      /\ \A t \in Stages : Emptied(stage[t])
  BY InvFacts
<1>2. c \in CommandSet /\ Alive(world, c.entity)
  BY <1>1, CommandsOfFacts DEF NewCommand
<1>3. WorldOK(w)
  BY <1>1, <1>2, ApplyOK
<1>4. UNCHANGED <<stageCount, readonly, merging>>
  BY DEF Direct
<1>5. Operate(w, stage, EventsOf(CleanedUp(c), c, w))
  BY DEF Direct
<1> HIDE DEF w
<1>6. \A ev \in EventsOf(CleanedUp(c), c, w) : ev.entity \in Handles
  BY <1>1, <1>2, <1>3, CleanedUpOK, EventsOfTyped
<1>7. /\ WorldOK(world')
      /\ StagesOK(stage') /\ SameDefers(stage, stage')
      /\ \A s \in Stages : Emptied(stage'[s])
      /\ \A s \in Stages \ {0} : stage'[s] = stage[s]
  BY <1>1, <1>3, <1>5, <1>6, OperateOK
<1> QED
  BY <1>4, <1>7, DefersKept, KeptByParts DEF Moves

\* ... and one while deferring is suspended.
LEMMA DirectSuspendedKeeps ==
    ASSUME IInv, NEW c \in CommandsOf(LivingEntities), DirectSuspended(c)
    PROVE  IInv'
<1>1. WorldOK(world) /\ StagesOK(stage) /\ \A t \in Stages : Emptied(stage[t])
  BY InvFacts
<1>2. c \in CommandSet /\ Alive(world, c.entity)
  BY <1>1, CommandsOfFacts DEF NewCommand
<1>3. WorldOK(Apply(world, c))
  BY <1>1, <1>2, ApplyOK
<1>4. world' = Apply(world, c) /\ UNCHANGED <<stageCount, stage, readonly, merging>>
  BY DEF DirectSuspended
<1>5. SameDefers(stage, stage')
  BY <1>4 DEF SameDefers
<1> QED
  BY <1>1, <1>3, <1>4, <1>5, DefersKept, KeptByParts

\* ecs_new: a recycled id has nothing, and no pair names it.
LEMMA NewKeeps ==
    ASSUME IInv, NEW id \in Ids, New(id)
    PROVE  IInv'
<1> DEFINE alive == world.alive \cup {id}  w == [world EXCEPT !.alive = alive]
<1>1. WorldOK(world) /\ StagesOK(stage) /\ \A t \in Stages : Emptied(stage[t])
  BY InvFacts
<1>2. /\ id \notin world.alive /\ world.gen[id] <= MaxGen /\ world' = w
      /\ UNCHANGED <<stageCount, stage, readonly, merging>>
  BY <1>1, WorldFacts DEF New, WorldSet
<1>3. world.alive \subseteq alive /\ alive \subseteq Ids /\ \A i \in alive : i \in world.alive \/ i = id
  BY <1>1, WorldFacts
<1> HIDE DEF alive
<1>4. /\ w \in WorldSet /\ w.alive = alive /\ w.gen = world.gen /\ w.has = world.has
  BY <1>1, <1>3, WorldFacts DEF WorldSet
<1> HIDE DEF w
<1>5. world.has[id] = {}
  BY <1>1, <1>2 DEF WorldOK
<1>6. WorldOK(w)
  <2>1. \A i \in Ids \ alive : world.has[i] = {}
    BY <1>1, <1>3 DEF WorldOK
  <2>2. \A i \in alive : world.gen[i] <= MaxGen
    BY <1>1, <1>2, <1>3 DEF WorldOK
  <2>3. ASSUME NEW i \in alive, NEW p \in world.has[i] \cap Pairs PROVE p.target \in alive
    BY <1>1, <1>3, <1>5 DEF WorldOK
  <2> QED
    BY <1>4, <2>1, <2>2, <2>3 DEF WorldOK
<1>7. SameDefers(stage, stage')
  BY <1>2 DEF SameDefers
<1> QED
  BY <1>1, <1>2, <1>6, <1>7, DefersKept, KeptByParts

-----------------------------------------------------------------------------
(* The flush                                                                 *)

\* The command a flush is at.
LEMMA CurrentFacts ==
    ASSUME IInv, NEW s \in Stages, Flushes(s)
    PROVE  /\ stage[s].at # 0 /\ stage[s].at \in 1 .. Len(stage[s].flushed)
           /\ stage[s].flushed \in Seq(CommandSet)
           /\ Current(s) \in CommandSet /\ Current(s) = stage[s].flushed[stage[s].at]
<1>1. stage[s] \in StageSet /\ StageOK(stage[s])
  BY InvFacts
<1>2. /\ stage[s].at \in Nat /\ stage[s].at # 0 /\ stage[s].at <= Len(stage[s].flushed)
      /\ stage[s].flushed \in Seq(CommandSet)
  BY <1>1, StageFacts DEF StageOK, Flushes
<1>3. stage[s].at \in 1 .. Len(stage[s].flushed)
  BY <1>2
<1> QED
  BY <1>2, <1>3 DEF Current

\* A batch marks commands of the queue that is flushed.
LEMMA MarkedFacts ==
    ASSUME NEW st, StagesOK(st), NEW s \in Stages, \A t \in Stages : Emptied(st[t]),
           NEW phase \in {"visit", "set", "execute"}, NEW added \in SUBSET AllIds,
           NEW q, SameCommands(st[s].flushed, q),
           NEW r, r = [st EXCEPT ![s].phase = phase, ![s].flushed = q, ![s].added = added]
    PROVE  StagesOK(r) /\ SameDefers(st, r) /\ \A t \in Stages : Emptied(r[t])
<1> DEFINE x == st[s]  y == [x EXCEPT !.phase = phase, !.flushed = q, !.added = added]
<1>1. x \in StageSet /\ st \in [Stages -> StageSet] /\ StageOK(x)
  BY DEF StagesOK
<1>2. r = [st EXCEPT ![s] = y]
  BY <1>1, Zenon
<1>3. q \in Seq(CommandSet) /\ Len(q) = Len(x.flushed)
  BY DEF SameCommands
<1>4. /\ y \in StageSet /\ y.defer = x.defer /\ y.at = x.at /\ y.queue = x.queue
      /\ y.stale = x.stale /\ y.flushed = q /\ y.entries = x.entries
  BY <1>1, <1>3, Zenon DEF StageSet
<1> HIDE DEF y
<1>5. StageOK(y)
  <2>1. QueueOK(y) /\ y.at <= Len(y.flushed)
    BY <1>1, <1>3, <1>4 DEF StageOK, QueueOK
  <2>2. Ahead(y, y.at)
    <3> SUFFICES ASSUME NEW id \in Ids, x.stale[id] # NoEntry
                 PROVE  /\ x.at # 0 /\ x.stale[id].first \in x.at .. Len(q)
                        /\ q[x.stale[id].first].entry
                        /\ q[x.stale[id].first].entity.id = id
      BY <1>4 DEF Ahead
    <3>1. /\ x.at # 0 /\ x.stale[id].first \in x.at .. Len(x.flushed)
          /\ x.flushed[x.stale[id].first].entry
          /\ x.flushed[x.stale[id].first].entity.id = id
      BY <1>1 DEF StageOK, Ahead
    <3>2. x.stale[id].first \in 1 .. Len(x.flushed)
      BY <1>1, <3>1, StageFacts
    <3> QED
      BY <1>3, <3>1, <3>2 DEF SameCommands
  <2> QED
    BY <2>1, <2>2 DEF StageOK
<1>6. Emptied(y)
  BY <1>4, Zenon DEF Emptied
<1>7. r \in [Stages -> StageSet] /\ r[s] = y /\ \A t \in Stages \ {s} : r[t] = st[t]
  <2>1. y \in StageSet
    BY <1>4
  <2>2. r[s] = y
    BY <1>1, <1>2, Zenon
  <2>3. \A t \in Stages \ {s} : r[t] = st[t]
    BY <1>1, <1>2, Zenon
  <2>4. r \in [Stages -> StageSet]
    <3> DEFINE z == [t \in Stages |-> IF t = s THEN y ELSE st[t]]
    <3>1. r = z
      BY <1>1, <1>2, Zenon
    <3>2. z \in [Stages -> StageSet]
      BY <1>1, <2>1, Zenon
    <3> QED
      BY <3>1, <3>2, Zenon
  <2> QED
    BY <2>2, <2>3, <2>4, Zenon
<1> SUFFICES ASSUME NEW t \in Stages
             PROVE  StageOK(r[t]) /\ r[t].defer = st[t].defer /\ Emptied(r[t])
  BY <1>7, Zenon DEF StagesOK, SameDefers
<1>8. CASE t = s
  BY <1>4, <1>5, <1>6, <1>7, <1>8, Zenon
<1>9. CASE t # s
  BY <1>7, <1>9, Zenon DEF StagesOK
<1> QED
  BY <1>8, <1>9, Zenon

LEMMA MarkedShape ==
    ASSUME NEW st \in [Stages -> StageSet], NEW s \in Stages, NEW phase, NEW added, NEW q,
           NEW r, r = [st EXCEPT ![s].phase = phase, ![s].flushed = q, ![s].added = added]
    PROVE  /\ \A t \in Stages \ {s} : r[t] = st[t]
           /\ r[s].at = st[s].at /\ r[s].queue = st[s].queue /\ r[s].flushed = q
           /\ r[s].phase = phase /\ r[s].added = added
<1> DEFINE x == st[s]  y == [x EXCEPT !.phase = phase, !.flushed = q, !.added = added]
<1>1. x \in StageSet
  OBVIOUS
<1>2. r = [st EXCEPT ![s] = y]
  BY <1>1, Zenon
<1>3. y.at = x.at /\ y.queue = x.queue /\ y.flushed = q /\ y.phase = phase /\ y.added = added
  BY <1>1 DEF StageSet
<1> HIDE DEF y
<1> QED
  BY <1>2, <1>3

\* ... or the phase changes only.
LEMMA PhasedFacts ==
    ASSUME NEW st, StagesOK(st), NEW s \in Stages, \A t \in Stages : Emptied(st[t]),
           NEW phase \in {"visit", "set", "execute"},
           NEW r, r = [st EXCEPT ![s].phase = phase]
    PROVE  /\ StagesOK(r) /\ SameDefers(st, r) /\ \A t \in Stages : Emptied(r[t])
           /\ \A t \in Stages \ {s} : r[t] = st[t]
           /\ r[s].at = st[s].at /\ r[s].queue = st[s].queue /\ r[s].flushed = st[s].flushed
           /\ r[s].phase = phase
<1> DEFINE x == st[s]  q == x.flushed  added == x.added
           u == [st EXCEPT ![s].phase = phase, ![s].flushed = q, ![s].added = added]
           y == [x EXCEPT !.phase = phase]
<1>1. st \in [Stages -> StageSet] /\ x \in StageSet
  BY DEF StagesOK
<1>2. r = u
  BY <1>1, Zenon DEF StageSet
<1>3. SameCommands(st[s].flushed, q) /\ added \in SUBSET AllIds
  BY <1>1, StageFacts DEF SameCommands
<1> HIDE DEF q, added
<1>4. StagesOK(u) /\ SameDefers(st, u) /\ \A t \in Stages : Emptied(u[t])
  BY <1>3, MarkedFacts, Zenon
<1> HIDE DEF u
<1>5. r = [st EXCEPT ![s] = y]
  BY <1>1, Zenon
<1>6. y.at = x.at /\ y.queue = x.queue /\ y.flushed = x.flushed /\ y.phase = phase
  BY <1>1 DEF StageSet
<1> HIDE DEF y
<1>7. r[s] = y /\ \A t \in Stages \ {s} : r[t] = st[t]
  BY <1>1, <1>5
<1> QED
  BY <1>2, <1>4, <1>6, <1>7

\* flecs_cmd_batch_for_entity: the type of a batch is committed.
LEMMA CommitBatchKeeps ==
    ASSUME IInv, NEW s \in Stages, CommitBatch(s)
    PROVE  IInv' /\ Moves(s)
<1> DEFINE q == stage[s].flushed  i == stage[s].at
           type == BatchedType(world, q, i)  w == Commit(world, q[i].entity, type)
           r == Batched(q, i)  added == BatchAdded(world, q, i)
           st == [stage EXCEPT ![s].phase = "set", ![s].flushed = r, ![s].added = added]
           removed == IF w.has[q[i].entity.id] = world.has[q[i].entity.id] THEN {}
                      ELSE BatchRemoved(world, q, i)
           events == {[on |-> "OnRemove", entity |-> q[i].entity, id |-> c] : c \in removed}
<1>1. /\ 0 \in Stages /\ WorldOK(world) /\ StagesOK(stage)
      /\ \A t \in Stages : Emptied(stage[t])
  BY InvFacts
<1>2. /\ Flushes(s) /\ Alive(world, q[i].entity)
      /\ Operate(w, st, events)
      /\ UNCHANGED <<stageCount, readonly, merging>>
  BY DEF CommitBatch, Batches, Current
<1>3. i \in 1 .. Len(q) /\ q \in Seq(CommandSet)
  BY <1>2, CurrentFacts
<1>4. type \subseteq SoundIds(world) /\ added \subseteq type
  BY <1>1, <1>3, BatchedTypeOK DEF BatchAdded, BatchedType
<1>5. added \in SUBSET AllIds
  BY <1>4 DEF SoundIds
<1>6. WorldOK(w)
  <2>1. q[i].entity \in Handles
    BY <1>3 DEF CommandSet
  <2> HIDE DEF type
  <2> QED
    BY <1>1, <1>2, <1>4, <2>1, CommitOK
<1>7. SameCommands(stage[s].flushed, r)
  BY <1>3, BatchedFacts
<1>9. \A ev \in events : ev.entity \in Handles
  <2>1. q[i].entity \in Handles
    BY <1>3 DEF CommandSet
  <2> HIDE DEF removed
  <2> QED
    BY <2>1
<1> HIDE DEF q, i, type, w, r, added, removed, events
<1>8. /\ StagesOK(st) /\ SameDefers(stage, st) /\ \A t \in Stages : Emptied(st[t])
      /\ \A t \in Stages \ {s} : st[t] = stage[t]
  <2>1. StagesOK(st) /\ SameDefers(stage, st) /\ \A t \in Stages : Emptied(st[t])
    BY <1>1, <1>5, <1>7, MarkedFacts, Zenon
  <2>2. stage \in [Stages -> StageSet]
    BY <1>1 DEF StagesOK
  <2> QED
    BY <2>1, <2>2, MarkedShape
<1> HIDE DEF st
<1>10. /\ WorldOK(world')
       /\ StagesOK(stage') /\ SameDefers(st, stage')
       /\ \A t \in Stages : Emptied(stage'[t])
       /\ \A t \in Stages \ {0} : stage'[t] = st[t]
  BY <1>1, <1>2, <1>6, <1>8, <1>9, OperateOK
<1>11. SameDefers(stage, stage') /\ \A t \in Stages \ {0, s} : stage'[t] = stage[t]
  BY <1>8, <1>10 DEF SameDefers
<1> QED
  BY <1>2, <1>10, <1>11, DefersKept, KeptByParts DEF Moves

\* ... or the batch deletes the entity.
LEMMA DeleteBatchKeeps ==
    ASSUME IInv, NEW s \in Stages, DeleteBatch(s)
    PROVE  IInv' /\ Moves(s)
<1> DEFINE w == Delete(world, Current(s).entity)
           v == IF s = 0 THEN world ELSE CleanUp(world, Current(s).entity)
           st == [stage EXCEPT ![s].phase = "execute"]
           events == Events(v, w, {})
<1>1. /\ 0 \in Stages /\ WorldOK(world) /\ StagesOK(stage)
      /\ \A t \in Stages : Emptied(stage[t])
  BY InvFacts
<1>2. /\ Alive(world, Current(s).entity)
      /\ Operate(w, st, events)
      /\ UNCHANGED <<stageCount, readonly, merging>>
  BY DEF DeleteBatch, EndsBatch, Batches
<1>3. WorldOK(w) /\ WorldOK(v)
  BY <1>1, <1>2, DeleteOK, CleanUpOK DEF Alive
<1>4. /\ StagesOK(st) /\ SameDefers(stage, st) /\ \A t \in Stages : Emptied(st[t])
      /\ \A t \in Stages \ {s} : st[t] = stage[t]
  BY <1>1, PhasedFacts
<1> HIDE DEF w, v, st
<1>5. \A ev \in events : ev.entity \in Handles
  BY <1>1, <1>3, EventsTyped
<1> HIDE DEF events
<1>6. /\ WorldOK(world')
      /\ StagesOK(stage') /\ SameDefers(st, stage')
      /\ \A t \in Stages : Emptied(stage'[t])
      /\ \A t \in Stages \ {0} : stage'[t] = st[t]
  BY <1>1, <1>2, <1>3, <1>4, <1>5, OperateOK
<1>7. SameDefers(stage, stage') /\ \A t \in Stages \ {0, s} : stage'[t] = stage[t]
  BY <1>4, <1>6 DEF SameDefers
<1> QED
  BY <1>2, <1>6, <1>7, DefersKept, KeptByParts DEF Moves

\* ... and its values are put in place.
LEMMA FinishBatchKeeps ==
    ASSUME IInv, NEW s \in Stages, FinishBatch(s)
    PROVE  IInv' /\ Moves(s)
<1> DEFINE q == stage[s].flushed  i == stage[s].at  e == q[i].entity
           w == BatchedValues(world, q, i)  r == BatchedSets(world, q, i)
           st == [stage EXCEPT ![s].phase = "execute", ![s].flushed = r, ![s].added = {}]
           events == {[on |-> "OnAdd", entity |-> e, id |-> c] : c \in stage[s].added \cap world.has[e.id]}
<1>1. /\ 0 \in Stages /\ WorldOK(world) /\ StagesOK(stage)
      /\ \A t \in Stages : Emptied(stage[t])
  BY InvFacts
<1>2. /\ Flushes(s) /\ Operate(w, st, events)
      /\ UNCHANGED <<stageCount, readonly, merging>>
  BY Zenon DEF FinishBatch
<1>3. i \in 1 .. Len(q) /\ q \in Seq(CommandSet)
  BY <1>2, CurrentFacts, Zenon
<1>4. WorldOK(w)
  BY <1>1, <1>3, BatchedValuesOK
<1>5. SameCommands(stage[s].flushed, r)
  BY <1>3, BatchedSetsFacts
<1>6. e \in Handles
  BY <1>3 DEF CommandSet
<1> HIDE DEF e
<1>7. \A ev \in events : ev.entity \in Handles
  BY <1>6
<1> HIDE DEF q, i, w, r, events
<1>8. /\ StagesOK(st) /\ SameDefers(stage, st) /\ \A t \in Stages : Emptied(st[t])
      /\ \A t \in Stages \ {s} : st[t] = stage[t]
  <2>1. StagesOK(st) /\ SameDefers(stage, st) /\ \A t \in Stages : Emptied(st[t])
    BY <1>1, <1>5, MarkedFacts, Zenon
  <2>2. stage \in [Stages -> StageSet]
    BY <1>1 DEF StagesOK
  <2> QED
    BY <2>1, <2>2, MarkedShape
<1> HIDE DEF st
<1>9. /\ WorldOK(world')
      /\ StagesOK(stage') /\ SameDefers(st, stage')
      /\ \A t \in Stages : Emptied(stage'[t])
      /\ \A t \in Stages \ {0} : stage'[t] = st[t]
  BY <1>1, <1>2, <1>4, <1>7, <1>8, OperateOK
<1>10. SameDefers(stage, stage') /\ \A t \in Stages \ {0, s} : stage'[t] = stage[t]
  BY <1>8, <1>9 DEF SameDefers
<1> QED
  BY <1>2, <1>9, <1>10, DefersKept, KeptByParts DEF Moves

\* The flush goes on after a command: the stages before it are st.
LEMMA GoesOn ==
    ASSUME NEW st, StagesOK(st), NEW s \in Stages, st[s].at # 0, Ahead(st[s], st[s].at + 1),
           \A t \in Stages \ {s} : Emptied(st[t]),
           NEW r, r = NextCommand(st, s)
    PROVE  /\ StagesOK(r) /\ SameDefers(st, r) /\ \A t \in Stages : Emptied(r[t])
           /\ \A t \in Stages \ {s} : r[t] = st[t]
<1>1. st \in [Stages -> StageSet] /\ StageOK(st[s])
  BY DEF StagesOK
<1>2. QueueOK(st[s]) /\ st[s].at <= Len(st[s].flushed)
  BY <1>1 DEF StageOK
<1>3. /\ r \in [Stages -> StageSet]
      /\ StageOK(r[s]) /\ Emptied(r[s]) /\ r[s].defer = st[s].defer
      /\ \A t \in Stages \ {s} : r[t] = st[t]
  BY <1>1, <1>2, NextCommandFacts
<1> QED
  BY <1>3 DEF StagesOK, SameDefers

\* A command of flecs_defer_end, and the step to the next one.
LEMMA ExecuteKeeps ==
    ASSUME IInv, NEW s \in Stages, Execute(s)
    PROVE  IInv' /\ Moves(s)
<1> DEFINE c == Current(s)
           w == Apply(world, c)
           st == Invalidated(stage, s, c)
<1>1. /\ 0 \in Stages /\ WorldOK(world) /\ StagesOK(stage)
      /\ \A t \in Stages : stage[t] \in StageSet /\ StageOK(stage[t]) /\ Emptied(stage[t])
      /\ stage \in [Stages -> StageSet]
  BY InvFacts DEF StagesOK
<1>2. /\ Flushes(s) /\ UNCHANGED <<stageCount, readonly, merging>>
      /\ \/ /\ Discards(c) /\ stage' = NextCommand(st, s) /\ UNCHANGED world
         \/ /\ ~Discards(c)
            /\ \E o \in Outcomes(w, st, EventsOf(CleanedUp(c), c, w)) :
                  world' = o.world /\ stage' = NextCommand(EndOperation(o.stage), s)
  BY DEF Execute, Executes
<1>3. stage[s].at # 0 /\ c \in CommandSet /\ c = stage[s].flushed[stage[s].at]
  BY <1>2, CurrentFacts
<1>4. /\ st \in [Stages -> StageSet]
      /\ st[s] = [stage[s] EXCEPT !.stale = st[s].stale]
      /\ StageOK(st[s]) /\ Ahead(st[s], st[s].at + 1)
      /\ \A t \in Stages \ {s} : st[t] = stage[t]
  <2> HIDE DEF c
  <2> QED
    BY <1>1, <1>3, InvalidatedFacts
<1> HIDE DEF c, st
<1>5. st[s].at = stage[s].at /\ st[s].defer = stage[s].defer
  <2> DEFINE x == stage[s]  stale == st[s].stale
  <2>1. x \in StageSet /\ st[s] = [x EXCEPT !.stale = stale]
    BY <1>1, <1>4
  <2> HIDE DEF x, stale
  <2>2. st[s].at = x.at /\ st[s].defer = x.defer
    BY <2>1 DEF StageSet
  <2> QED
    BY <2>2 DEF x
<1>6. /\ StagesOK(st) /\ SameDefers(stage, st) /\ st[s].at # 0
      /\ \A t \in Stages \ {s} : Emptied(st[t])
  BY <1>1, <1>3, <1>4, <1>5 DEF StagesOK, SameDefers
<1>7. CASE Discards(c)
  <2> DEFINE r == NextCommand(st, s)
  <2>1. /\ StagesOK(r) /\ SameDefers(st, r) /\ \A t \in Stages : Emptied(r[t])
        /\ \A t \in Stages \ {s} : r[t] = st[t]
    BY <1>4, <1>6, GoesOn
  <2> HIDE DEF r
  <2>2. stage' = r /\ WorldOK(world')
    BY <1>1, <1>2, <1>7 DEF r
  <2>3. SameDefers(stage, stage') /\ \A t \in Stages \ {s} : stage'[t] = stage[t]
    BY <1>4, <1>6, <2>1, <2>2 DEF SameDefers
  <2> QED
    BY <1>2, <2>1, <2>2, <2>3, DefersKept, KeptByParts DEF Moves
<1>8. CASE ~Discards(c)
  <2>1. PICK o \in Outcomes(w, st, EventsOf(CleanedUp(c), c, w)) :
           world' = o.world /\ stage' = NextCommand(EndOperation(o.stage), s)
    BY <1>2, <1>8
  <2>2. WorldOK(w)
    BY <1>1, <1>3, <1>8, ApplyOK DEF Discards
  <2>3. \A ev \in EventsOf(CleanedUp(c), c, w) : ev.entity \in Handles
    BY <1>1, <1>3, <1>8, <2>2, CleanedUpOK, EventsOfTyped DEF Discards
  <2> HIDE DEF w
  <2>4. /\ WorldOK(o.world)
        /\ StagesOK(o.stage) /\ SameDefers(st, o.stage)
        /\ \A t \in Stages \ {0} : o.stage[t] = st[t]
        /\ o.stage[0].at = st[0].at /\ o.stage[0].flushed = st[0].flushed
        /\ o.stage[0].stale = st[0].stale
    BY <1>1, <1>6, <2>1, <2>2, <2>3, OutcomesOK
  <2> DEFINE u == EndOperation(o.stage)
  <2>5. /\ StagesOK(u) /\ SameDefers(o.stage, u)
        /\ Emptied(u[0])
        /\ o.stage[0].at # 0 => u = o.stage
        /\ \A t \in Stages \ {0} : u[t] = o.stage[t]
    BY <1>1, <2>4, EndOperationFacts
  <2> HIDE DEF u
  <2>6. u[s].at # 0 /\ Ahead(u[s], u[s].at + 1)
    <3>1. CASE s = 0
      <4>1. u = o.stage
        BY <1>6, <2>4, <2>5, <3>1
      <4>2. /\ u[0].at = st[0].at /\ u[0].flushed = st[0].flushed /\ u[0].stale = st[0].stale
        BY <2>4, <4>1
      <4> QED
        BY <1>4, <1>6, <3>1, <4>2 DEF Ahead
    <3>2. CASE s # 0
      <4>1. u[s] = st[s]
        BY <2>4, <2>5, <3>2
      <4> QED
        BY <1>4, <1>6, <4>1
    <3> QED
      BY <3>1, <3>2
  <2>7. \A t \in Stages \ {s} : Emptied(u[t])
    BY <1>6, <2>4, <2>5
  <2> DEFINE r == NextCommand(u, s)
  <2>8. /\ StagesOK(r) /\ SameDefers(u, r) /\ \A t \in Stages : Emptied(r[t])
        /\ \A t \in Stages \ {s} : r[t] = u[t]
    BY <2>5, <2>6, <2>7, GoesOn
  <2>9. stage' = r
    BY <2>1 DEF u
  <2> HIDE DEF r
  <2>10. SameDefers(stage, stage')
    BY <1>6, <2>4, <2>5, <2>8, <2>9 DEF SameDefers
  <2>11. \A t \in Stages \ {0, s} : stage'[t] = stage[t]
    BY <1>4, <2>4, <2>5, <2>8, <2>9
  <2> QED
    BY <1>2, <2>1, <2>4, <2>8, <2>9, <2>10, <2>11, DefersKept, KeptByParts DEF Moves
<1> QED
  BY <1>7, <1>8

-----------------------------------------------------------------------------
(* What a flush leads to                                                     *)

PolicyPairs == {p \in Pairs : p.rel \in DeletePolicy}

\* What a command does to the type of its entity.
Adds(c, x) == c.kind \in {"Add", "Set", "AddModified"} /\ c.id = x
Drops(c, x) == c.kind = "Clear" \/ (c.kind = "Remove" /\ c.id = x)
Takes(c) == c.kind = "Clear" \/ (c.kind = "Remove" /\ c.id \in PolicyPairs)

\* The commands of a living entity, from n on.
Own(w, q, n, id) ==
    {j \in n .. Len(q) : q[j].entity.id = id /\ q[j].entity.gen = w.gen[id]}

\* One of them deletes it; they leave it with x.
Ends(w, q, n, id) == \E j \in Own(w, q, n, id) : q[j].kind = "Delete"
InEnd(w, q, n, id, x) ==
    \/ x \in w.has[id] /\ \A k \in Own(w, q, n, id) : ~Drops(q[k], x)
    \/ \E j \in Own(w, q, n, id) :
          Adds(q[j], x) /\ \A k \in Own(w, q, n, id) : k > j => ~Drops(q[k], x)

\* Entities that outlive the commands from n on: none is deleted, and what they
\* are left with names no other that would end them.  The greatest such set is
\* what is alive after the commands.
Safe(ids, w, q, n) ==
    /\ ids \subseteq w.alive
    /\ \A id \in ids :
          /\ ~Ends(w, q, n, id)
          /\ \A p \in PolicyPairs : InEnd(w, q, n, id, p) => p.target \in ids

\* Where a command takes away what would end an entity, nothing was deleted
\* before it, and nothing has a target that is dead.
Untangled(w, q, n) ==
    (\E j \in n .. Len(q) : Takes(q[j])) =>
        \A j \in n .. Len(q) :
            /\ Takes(q[j]) => \A i \in n .. Len(q) : i < j => q[i].kind # "Delete"
            /\ q[j].kind \in {"Add", "Remove"} => ~DeletesEntity(w, q[j].id)

\* The commands from m on lead v where those from n on lead w.
Lasts(x, w) == x \in Pairs => x.target \in w.alive
SameEnd(w, q, n, v, r, m) ==
    /\ v.alive \subseteq w.alive
    /\ \A id \in v.alive : v.gen[id] = w.gen[id]
    /\ \A ids \in SUBSET Ids : Safe(ids, w, q, n) <=> Safe(ids, v, r, m)
    /\ \A id \in v.alive :
          /\ Ends(w, q, n, id) <=> Ends(v, r, m, id)
          /\ \A x \in AllIds : Lasts(x, v) /\ ~Ends(v, r, m, id) =>
                (InEnd(w, q, n, id, x) <=> InEnd(v, r, m, id, x))
    /\ Untangled(w, q, n) => Untangled(v, r, m)

\* The relation is a preorder.
LEMMA SameEndRefl ==
    ASSUME NEW w, NEW q, NEW n
    PROVE  SameEnd(w, q, n, w, q, n)
  BY DEF SameEnd

LEMMA SameEndTrans ==
    ASSUME NEW w, NEW q, NEW n, NEW v, NEW r, NEW m, NEW u, NEW t, NEW l,
           SameEnd(w, q, n, v, r, m), SameEnd(v, r, m, u, t, l)
    PROVE  SameEnd(w, q, n, u, t, l)
<1>1. /\ u.alive \subseteq w.alive
      /\ \A id \in u.alive : u.gen[id] = w.gen[id]
      /\ Untangled(w, q, n) => Untangled(u, t, l)
  BY DEF SameEnd
<1>2. \A ids \in SUBSET Ids : Safe(ids, w, q, n) <=> Safe(ids, u, t, l)
  BY DEF SameEnd
<1>3. ASSUME NEW id \in u.alive
      PROVE  /\ Ends(w, q, n, id) <=> Ends(u, t, l, id)
             /\ \A x \in AllIds : Lasts(x, u) /\ ~Ends(u, t, l, id) =>
                   (InEnd(w, q, n, id, x) <=> InEnd(u, t, l, id, x))
  <2>1. id \in v.alive /\ (Ends(w, q, n, id) <=> Ends(v, r, m, id))
        /\ (Ends(v, r, m, id) <=> Ends(u, t, l, id))
    BY DEF SameEnd
  <2>2. ASSUME NEW x \in AllIds, Lasts(x, u), ~Ends(u, t, l, id)
        PROVE  InEnd(w, q, n, id, x) <=> InEnd(u, t, l, id, x)
    <3>1. Lasts(x, v)
      BY <2>2 DEF SameEnd, Lasts
    <3>2. InEnd(w, q, n, id, x) <=> InEnd(v, r, m, id, x)
      BY <2>1, <2>2, <3>1 DEF SameEnd
    <3>3. InEnd(v, r, m, id, x) <=> InEnd(u, t, l, id, x)
      BY <2>2 DEF SameEnd
    <3> QED
      BY <3>2, <3>3
  <2> QED
    BY <2>1, <2>2
<1> QED
  BY <1>1, <1>2, <1>3 DEF SameEnd

\* A step that deletes nothing, and changes the type and the commands of one
\* entity, leads where it did if that entity is left with the same.
LEMMA SameIfOneIs ==
    ASSUME NEW w, NEW q, NEW n, NEW v, NEW r, NEW m, NEW i,
           v.alive = w.alive, v.gen = w.gen,
           \A id \in w.alive \ {i} :
              /\ v.has[id] = w.has[id] /\ Own(v, r, m, id) = Own(w, q, n, id)
              /\ \A j \in Own(w, q, n, id) : r[j] = q[j],
           i \in w.alive =>
              /\ Ends(w, q, n, i) <=> Ends(v, r, m, i)
              /\ \A x \in AllIds : (Lasts(x, w) \/ x \in PolicyPairs) /\ ~Ends(w, q, n, i) =>
                    (InEnd(w, q, n, i, x) <=> InEnd(v, r, m, i, x)),
           Untangled(w, q, n) => Untangled(v, r, m)
    PROVE  SameEnd(w, q, n, v, r, m)
<1>1. ASSUME NEW id \in w.alive
      PROVE  /\ Ends(w, q, n, id) <=> Ends(v, r, m, id)
             /\ \A x \in AllIds : (Lasts(x, w) \/ x \in PolicyPairs) /\ ~Ends(w, q, n, id) =>
                   (InEnd(w, q, n, id, x) <=> InEnd(v, r, m, id, x))
  <2>1. CASE id = i
    BY <2>1
  <2>2. CASE id # i
    <3>1. /\ v.has[id] = w.has[id] /\ Own(v, r, m, id) = Own(w, q, n, id)
          /\ \A j \in Own(w, q, n, id) : r[j] = q[j]
      BY <2>2
    <3>2. Ends(w, q, n, id) <=> Ends(v, r, m, id)
      BY <3>1 DEF Ends
    <3>3. ASSUME NEW x PROVE InEnd(w, q, n, id, x) <=> InEnd(v, r, m, id, x)
      BY <3>1 DEF InEnd
    <3> QED
      BY <3>2, <3>3
  <2> QED
    BY <2>1, <2>2
<1>2. PolicyPairs \subseteq AllIds
  BY DEF PolicyPairs, AllIds
<1>3. ASSUME NEW ids PROVE Safe(ids, w, q, n) <=> Safe(ids, v, r, m)
  BY <1>1, <1>2 DEF Safe
<1>4. \A x : Lasts(x, v) <=> Lasts(x, w)
  BY DEF Lasts
<1> QED
  BY <1>1, <1>3, <1>4 DEF SameEnd

\* What flecs_commit leaves.
LEMMA CommitShape ==
    ASSUME NEW w, WorldOK(w), NEW e, e.id \in Ids, NEW ids,
           NEW v, v = Commit(w, e, ids)
    PROVE  /\ v.alive = w.alive /\ v.gen = w.gen /\ v.has[e.id] = ids
           /\ \A id \in Ids \ {e.id} : v.has[id] = w.has[id] /\ v.value[id] = w.value[id]
           /\ \A c \in Components :
                 v.value[e.id][c] = IF c \in ids \cap w.has[e.id] THEN w.value[e.id][c] ELSE Default
  BY WorldFacts DEF Commit, WorldSet

\* What is doomed with an entity is what a set that is closed has with it.
LEMMA DoomedClosed ==
    ASSUME NEW w, NEW id \in w.alive
    PROVE  /\ \A i \in w.alive : DiesWith(w, i, Doomed(w, id)) => i \in Doomed(w, id)
           /\ \A ids \in SUBSET w.alive :
                 id \in ids /\ (\A i \in w.alive : DiesWith(w, i, ids) => i \in ids)
                    => Doomed(w, id) \subseteq ids
<1> DEFINE closed == {ids \in SUBSET w.alive :
                         id \in ids /\ \A i \in w.alive : DiesWith(w, i, ids) => i \in ids}
<1>1. {id} \cup w.alive = w.alive
  OBVIOUS
<1>2. Doomed(w, id) = {i \in w.alive : \A ids \in closed : i \in ids}
  BY <1>1 DEF Doomed
<1>3. ASSUME NEW i \in w.alive, DiesWith(w, i, Doomed(w, id)), NEW ids \in closed PROVE i \in ids
  <2>1. Doomed(w, id) \subseteq ids
    BY <1>2, <1>3
  <2>2. DiesWith(w, i, ids)
    BY <1>3, <2>1 DEF DiesWith
  <2> QED
    BY <2>2
<1> QED
  BY <1>2, <1>3

\* What ecs_delete leaves.
LEMMA DeleteShape ==
    ASSUME NEW w, WorldOK(w), NEW e, e.id \in w.alive,
           NEW v, v = Delete(w, e)
    PROVE  /\ v.alive = w.alive \ Doomed(w, e.id)
           /\ \A id \in v.alive :
                 /\ id \in Ids /\ v.gen[id] = w.gen[id] /\ v.value[id] = w.value[id]
                 /\ \A x \in AllIds : x \in v.has[id] <=> x \in w.has[id] /\ Lasts(x, v)
           /\ \A id \in Ids \ v.alive :
                 v.has[id] = {} /\ \A c \in Components : v.value[id][c] \in {Default, w.value[id][c]}
<1> DEFINE doomed == Doomed(w, e.id)
<1>1. w \in WorldSet /\ w.alive \subseteq Ids /\ doomed \subseteq w.alive
  BY WorldFacts, DoomedFacts
<1> HIDE DEF doomed
<1>2. /\ v.alive = w.alive \ doomed
      /\ \A i \in Ids \cap doomed : v.has[i] = {} /\ \A c \in Components : v.value[i][c] = Default
      /\ \A i \in Ids \ doomed :
            /\ v.gen[i] = w.gen[i] /\ v.value[i] = w.value[i]
            /\ \A c : c \in v.has[i] <=> c \in w.has[i] /\ (c \in Pairs => c.target \notin doomed)
  <2>1. v = Without(w, doomed, doomed)
    BY DEF Delete, doomed
  <2> QED
    BY <2>1, WithoutShape
<1>3. ASSUME NEW id \in v.alive
      PROVE  /\ id \in Ids /\ v.gen[id] = w.gen[id] /\ v.value[id] = w.value[id]
             /\ \A x \in AllIds : x \in v.has[id] <=> x \in w.has[id] /\ Lasts(x, v)
  <2>1. id \in Ids /\ id \in w.alive /\ id \notin doomed
    BY <1>1, <1>2, <1>3
  <2>2. \A x : x \in v.has[id] <=> x \in w.has[id] /\ (x \in Pairs => x.target \notin doomed)
    BY <1>2, <2>1
  <2>3. \A x \in w.has[id] : x \in Pairs => x.target \in w.alive
    BY <2>1 DEF WorldOK
  <2>4. \A x \in w.has[id] : (x \in Pairs => x.target \notin doomed) <=> Lasts(x, v)
    BY <1>2, <2>3 DEF Lasts
  <2>5. \A x \in AllIds : x \in v.has[id] <=> x \in w.has[id] /\ Lasts(x, v)
    BY <2>2, <2>4
  <2>6. v.gen[id] = w.gen[id] /\ v.value[id] = w.value[id]
    BY <1>2, <2>1
  <2> QED
    BY <2>1, <2>5, <2>6
<1>4. ASSUME NEW id \in Ids \ v.alive
      PROVE  v.has[id] = {} /\ \A c \in Components : v.value[id][c] \in {Default, w.value[id][c]}
  <2>1. CASE id \in doomed
    BY <1>2, <2>1
  <2>2. CASE id \notin doomed
    <3>1. id \notin w.alive
      BY <1>2, <1>4, <2>2
    <3>2. w.has[id] = {}
      BY <1>4, <3>1 DEF WorldOK
    <3>3. v.has[id] = {}
      BY <1>2, <1>4, <2>2, <3>2
    <3> QED
      BY <1>2, <1>4, <2>2, <3>3
  <2> QED
    BY <2>1, <2>2
<1> QED
  BY <1>2, <1>3, <1>4, Zenon DEF doomed

\* Where nothing is taken away any more, an entity that no safe set has can be
\* deleted, with what is deleted with it.
LEMMA SameIfDoomed ==
    ASSUME NEW w, WorldOK(w), NEW q, NEW n \in Nat, NEW m \in {n, n + 1}, Len(q) \in Nat,
           NEW e, e.id \in w.alive, NEW v, v = Delete(w, e),
           m = n \/ q[n].entity.id = e.id,
           \A j \in n .. Len(q) : ~Takes(q[j]),
           \A ids \in SUBSET Ids : Safe(ids, w, q, n) => e.id \notin ids
    PROVE  SameEnd(w, q, n, v, q, m)
<1> DEFINE doomed == Doomed(w, e.id)
<1>1. /\ v.alive = w.alive \ doomed
      /\ \A id \in v.alive :
            /\ id \in Ids /\ v.gen[id] = w.gen[id]
            /\ \A x \in AllIds : x \in v.has[id] <=> x \in w.has[id] /\ Lasts(x, v)
  BY DeleteShape
<1>2. doomed \subseteq w.alive /\ e.id \in doomed /\ w.alive \subseteq Ids
  BY DoomedFacts, WorldFacts
<1>3. PolicyPairs \subseteq AllIds /\ PolicyPairs \subseteq Pairs
  BY DEF PolicyPairs, AllIds
<1>4. \A i \in w.alive : \A p \in PolicyPairs : p \in w.has[i] /\ p.target \in doomed => i \in doomed
  BY DoomedClosed DEF DiesWith, PolicyPairs
<1>5. ASSUME NEW ids \in SUBSET w.alive, e.id \in ids,
             \A i \in w.alive : \A p \in PolicyPairs : p \in w.has[i] /\ p.target \in ids => i \in ids
      PROVE  doomed \subseteq ids
  <2>1. \A i \in w.alive : DiesWith(w, i, ids) => i \in ids
    <3> SUFFICES ASSUME NEW i \in w.alive, DiesWith(w, i, ids) PROVE i \in ids
      OBVIOUS
    <3>1. PICK p \in w.has[i] \cap Pairs : p.rel \in DeletePolicy /\ p.target \in ids
      BY DEF DiesWith
    <3> QED
      BY <1>5, <3>1 DEF PolicyPairs
  <2> QED
    BY <1>5, <2>1, DoomedClosed
<1> HIDE DEF doomed
<1>6. \A id \in v.alive : Own(v, q, m, id) = Own(w, q, n, id)
  <2> SUFFICES ASSUME NEW id \in v.alive PROVE Own(v, q, m, id) = Own(w, q, n, id)
    OBVIOUS
  <2>1. id # e.id /\ v.gen[id] = w.gen[id]
    BY <1>1, <1>2
  <2>2. \A j : j \in m .. Len(q) <=> j \in n .. Len(q) /\ (m = n \/ j # n)
    OBVIOUS
  <2> QED
    BY <2>1, <2>2 DEF Own
<1>7. \A id \in v.alive : Ends(w, q, n, id) <=> Ends(v, q, m, id)
  BY <1>6 DEF Ends
<1>8. \A id \in v.alive : \A x \in AllIds : InEnd(v, q, m, id, x) => InEnd(w, q, n, id, x)
  BY <1>1, <1>6 DEF InEnd
<1>9. \A id \in v.alive : \A x \in AllIds : Lasts(x, v) /\ InEnd(w, q, n, id, x) => InEnd(v, q, m, id, x)
  BY <1>1, <1>6 DEF InEnd
<1>10. \A id, p : p \in PolicyPairs => \A k \in Own(w, q, n, id) : ~Drops(q[k], p)
  BY DEF Own, Drops, Takes
<1>11. ASSUME NEW ids \in SUBSET Ids, Safe(ids, w, q, n) PROVE Safe(ids, v, q, m)
  <2>1. e.id \notin ids /\ ids \subseteq w.alive
    BY <1>11 DEF Safe
  <2>2. ASSUME NEW i \in w.alive, NEW p \in PolicyPairs, p \in w.has[i], p.target \in w.alive \ ids
        PROVE  i \in w.alive \ ids
    <3>1. InEnd(w, q, n, i, p)
      BY <1>10, <2>2 DEF InEnd
    <3> QED
      BY <1>11, <2>2, <3>1 DEF Safe
  <2>3. doomed \subseteq w.alive \ ids
    <3> DEFINE rest == w.alive \ ids
    <3>1. rest \in SUBSET w.alive /\ e.id \in rest
      BY <2>1
    <3>2. \A i \in w.alive : \A p \in PolicyPairs : p \in w.has[i] /\ p.target \in rest => i \in rest
      BY <2>2
    <3> HIDE DEF rest
    <3>3. doomed \subseteq rest
      BY <1>5, <3>1, <3>2
    <3> QED
      BY <3>3 DEF rest
  <2>4. ids \subseteq v.alive
    BY <1>1, <2>1, <2>3
  <2> QED
    BY <1>3, <1>7, <1>8, <1>11, <2>4 DEF Safe
<1>12. ASSUME NEW ids \in SUBSET Ids, Safe(ids, v, q, m) PROVE Safe(ids, w, q, n)
  <2>1. ids \subseteq v.alive /\ ids \subseteq w.alive
    BY <1>1, <1>12 DEF Safe
  <2>2. ASSUME NEW id \in ids, NEW p \in PolicyPairs, InEnd(w, q, n, id, p) PROVE p.target \in ids
    <3>1. p \in w.has[id] => Lasts(p, v)
      <4> SUFFICES ASSUME p \in w.has[id] PROVE Lasts(p, v)
        OBVIOUS
      <4>1. id \in w.alive /\ id \notin doomed
        BY <1>1, <2>1
      <4>2. p.target \in w.alive
        BY <1>3, <4>1 DEF WorldOK
      <4> QED
        BY <1>1, <1>4, <4>1, <4>2 DEF Lasts
    <3>2. InEnd(v, q, m, id, p)
      BY <1>1, <1>3, <1>6, <2>1, <2>2, <3>1 DEF InEnd
    <3> QED
      BY <1>12, <3>2 DEF Safe
  <2> QED
    BY <1>7, <1>12, <2>1, <2>2 DEF Safe
<1>13. Untangled(v, q, m)
  <2>1. \A j \in m .. Len(q) : j \in n .. Len(q)
    OBVIOUS
  <2> QED
    BY <2>1 DEF Untangled
<1> QED
  BY <1>1, <1>7, <1>8, <1>9, <1>11, <1>12, <1>13 DEF SameEnd

\* A command that deletes nothing gives its entity the type it says, up to pairs
\* that are not valid and do not end it.
LEMMA ApplyShape ==
    ASSUME NEW w, WorldOK(w), NEW c \in CommandSet, Alive(w, c.entity),
           c.kind # "Delete", ~(c.kind = "Add" /\ DeletesEntity(w, c.id)),
           NEW i, i = c.entity.id, NEW v, v = Apply(w, c)
    PROVE  /\ i \in Ids /\ i \in w.alive /\ v.alive = w.alive /\ v.gen = w.gen
           /\ \A id \in Ids \ {i} : v.has[id] = w.has[id] /\ v.value[id] = w.value[id]
           /\ \A x \in AllIds : Lasts(x, w) \/ x \in PolicyPairs =>
                 (x \in v.has[i] <=> (x \in w.has[i] /\ ~Drops(c, x)) \/ Adds(c, x))
           /\ \A x \in Components :
                 v.value[i][x] = IF c.kind = "Set" /\ c.id = x THEN c.value
                                 ELSE IF c.kind \in {"Modified", "Skip"} THEN w.value[i][x]
                                 ELSE IF c.kind = "Add" /\ Invalid(w, c.id) THEN w.value[i][x]
                                 ELSE IF x \in v.has[i] /\ x \in w.has[i] THEN w.value[i][x]
                                 ELSE Default
<1> DEFINE e == c.entity  has == w.has[i]
           P(u) == /\ u.alive = w.alive /\ u.gen = w.gen
                   /\ \A id \in Ids \ {i} : u.has[id] = w.has[id] /\ u.value[id] = w.value[id]
           V(u) == \A x \in Components : u.value[i][x] = IF x \in u.has[i] /\ x \in has
                                                       THEN w.value[i][x] ELSE Default
<1>1. i \in Ids /\ i \in w.alive /\ c.kind \in Kinds
  BY DEF CommandSet, Handles, Alive
<1>2. ASSUME NEW ids PROVE /\ P(Commit(w, e, ids)) /\ V(Commit(w, e, ids))
                           /\ Commit(w, e, ids).has[i] = ids
  <2> DEFINE u == Commit(w, e, ids)
  <2>1. /\ u.alive = w.alive /\ u.gen = w.gen /\ u.has[e.id] = ids
        /\ \A id \in Ids \ {e.id} : u.has[id] = w.has[id] /\ u.value[id] = w.value[id]
        /\ \A x \in Components :
              u.value[e.id][x] = IF x \in ids \cap w.has[e.id] THEN w.value[e.id][x] ELSE Default
    BY <1>1, CommitShape
  <2> HIDE DEF u
  <2>2. P(u) /\ V(u) /\ u.has[i] = ids
    BY <2>1
  <2> QED
    BY <2>2 DEF u
<1>3. CASE c.kind = "Add" /\ ~Invalid(w, c.id)
  <2>1. v = Commit(w, e, has \cup {c.id})
    BY <1>3 DEF Apply, DeletesEntity
  <2>2. P(v) /\ V(v) /\ v.has[i] = has \cup {c.id}
    <3> HIDE DEF P, V, has
    <3> QED
      BY <1>2, <2>1
  <2>3. \A x \in AllIds : x \in v.has[i] <=> (x \in w.has[i] /\ ~Drops(c, x)) \/ Adds(c, x)
    BY <1>3, <2>2 DEF Adds, Drops
  <2> QED
    BY <1>1, <1>3, <2>2, <2>3
<1>4. CASE c.kind = "Add" /\ Invalid(w, c.id)
  <2>1. v = w
    BY <1>4 DEF Apply
  <2>2. \A x \in AllIds : Lasts(x, w) \/ x \in PolicyPairs => c.id # x
    BY <1>4 DEF Invalid, DeletesEntity, Lasts, PolicyPairs
  <2> QED
    BY <1>1, <1>4, <2>1, <2>2 DEF Adds, Drops
<1>5. CASE c.kind = "Remove"
  <2>1. v = Commit(w, e, has \ {c.id})
    BY <1>5 DEF Apply
  <2>2. P(v) /\ V(v) /\ v.has[i] = has \ {c.id}
    <3> HIDE DEF P, V, has
    <3> QED
      BY <1>2, <2>1
  <2>3. \A x \in AllIds : x \in v.has[i] <=> (x \in w.has[i] /\ ~Drops(c, x)) \/ Adds(c, x)
    BY <1>5, <2>2 DEF Adds, Drops
  <2> QED
    BY <1>1, <1>5, <2>2, <2>3
<1>6. CASE c.kind = "Set"
  <2> DEFINE u == Commit(w, e, has \cup {c.id})
  <2>1. v = [u EXCEPT !.value[i][c.id] = c.value]
    BY <1>6 DEF Apply
  <2>2. P(u) /\ V(u) /\ u.has[i] = has \cup {c.id}
    BY <1>2, Zenon
  <2>3. u \in WorldSet
    <3>1. u = Commit(w, e, has \cup {c.id})
      OBVIOUS
    <3>2. has \cup {c.id} \subseteq SoundIds(w)
      <4>1. has \subseteq SoundIds(w)
        BY <1>1, WorldFacts
      <4>2. c.id \in Components
        BY <1>6 DEF CommandSet
      <4>3. c.id \in SoundIds(w)
        BY <4>2, IdsAssumption DEF SoundIds, AllIds
      <4> QED
        BY <4>1, <4>3
    <3>3. e \in Handles
      BY DEF CommandSet
    <3> HIDE DEF u, has
    <3>4. WorldOK(u)
      BY <3>1, <3>2, <3>3, CommitOK
    <3> QED
      BY <3>4, WorldFacts
  <2> HIDE DEF u
  <2>4. /\ v.alive = u.alive /\ v.gen = u.gen /\ v.has = u.has
        /\ v.value = [u.value EXCEPT ![i][c.id] = c.value]
    BY <2>1, <2>3 DEF WorldSet
  <2>5. u.value \in [Ids -> [Components -> Values \cup {Default}]]
    BY <2>3 DEF WorldSet
  <2>6. \A id \in Ids \ {i} : v.value[id] = u.value[id]
    BY <2>4, <2>5
  <2>7. \A x \in Components : v.value[i][x] = IF c.id = x THEN c.value ELSE u.value[i][x]
    BY <1>1, <2>4, <2>5
  <2>8. \A x \in AllIds : x \in v.has[i] <=> x \in has \/ c.id = x
    BY <2>2, <2>4
  <2>9. \A x \in AllIds : ~Drops(c, x) /\ (Adds(c, x) <=> c.id = x)
    BY <1>6 DEF Adds, Drops
  <2>10. P(v)
    BY <2>2, <2>4, <2>6
  <2>11. \A x \in Components : c.id # x => v.value[i][x] = IF x \in v.has[i] /\ x \in has
                                                        THEN w.value[i][x] ELSE Default
    BY <2>2, <2>4, <2>7
  <2> QED
    BY <1>1, <1>6, <2>7, <2>8, <2>9, <2>10, <2>11
<1>7. CASE c.kind = "AddModified"
  <2>1. v = Commit(w, e, has \cup {c.id})
    BY <1>7 DEF Apply
  <2>2. P(v) /\ V(v) /\ v.has[i] = has \cup {c.id}
    <3> HIDE DEF P, V, has
    <3> QED
      BY <1>2, <2>1
  <2>3. \A x \in AllIds : x \in v.has[i] <=> (x \in w.has[i] /\ ~Drops(c, x)) \/ Adds(c, x)
    BY <1>7, <2>2 DEF Adds, Drops
  <2> QED
    BY <1>1, <1>7, <2>2, <2>3
<1>8. CASE c.kind = "Clear"
  <2>1. v = Commit(w, e, {})
    BY <1>8 DEF Apply
  <2> QED
    BY <1>1, <1>2, <1>8, <2>1 DEF Adds, Drops
<1>9. CASE c.kind \in {"Modified", "Skip"}
  <2>1. v = w
    BY <1>9 DEF Apply
  <2> QED
    BY <1>1, <1>9, <2>1 DEF Adds, Drops
<1> QED
  BY <1>1, <1>3, <1>4, <1>5, <1>6, <1>7, <1>8, <1>9 DEF Kinds

\* A command as flecs_defer_end does it.
Do(w, c) == IF Alive(w, c.entity) THEN Apply(w, c) ELSE w

\* A command leads where the commands from it on do.
LEMMA DoSame ==
    ASSUME NEW w, WorldOK(w), NEW q \in Seq(CommandSet), NEW n \in 1 .. Len(q),
           Untangled(w, q, n), NEW v, v = Do(w, q[n])
    PROVE  SameEnd(w, q, n, v, q, n + 1)
<1> DEFINE c == q[n]  i == c.entity.id
<1>1. c \in CommandSet /\ n \in Nat /\ Len(q) \in Nat /\ n <= Len(q) /\ i \in Ids
  BY DEF CommandSet, Handles
<1>2. \A j : /\ j \in n .. Len(q) <=> j \in n + 1 .. Len(q) \/ j = n
             /\ j \in n + 1 .. Len(q) => j > n
  BY <1>1
<1>3. ASSUME v.alive = w.alive, v.gen = w.gen
      PROVE  Untangled(w, q, n) => Untangled(v, q, n + 1)
  <2>1. \A j \in n + 1 .. Len(q) : j \in n .. Len(q)
    BY <1>1
  <2>2. \A x : DeletesEntity(v, x) <=> DeletesEntity(w, x)
    BY <1>3 DEF DeletesEntity, Invalid
  <2> QED
    BY <2>1, <2>2 DEF Untangled
<1>4. CASE ~Alive(w, c.entity)
  <2>1. v = w
    BY <1>4 DEF Do
  <2>2. \A id \in w.alive : Own(v, q, n + 1, id) = Own(w, q, n, id)
    <3> SUFFICES ASSUME NEW id \in w.alive PROVE Own(v, q, n + 1, id) = Own(w, q, n, id)
      OBVIOUS
    <3>1. ~(c.entity.id = id /\ c.entity.gen = w.gen[id])
      BY <1>4 DEF Alive
    <3>2. v.gen[id] = w.gen[id]
      BY <2>1
    <3> QED
      BY <1>2, <3>1, <3>2 DEF Own
  <2>3. i \in w.alive =>
           /\ Ends(w, q, n, i) <=> Ends(v, q, n + 1, i)
           /\ \A x : InEnd(w, q, n, i, x) <=> InEnd(v, q, n + 1, i, x)
    BY <2>1, <2>2 DEF Ends, InEnd
  <2>4. \A id \in w.alive \ {i} :
           /\ v.has[id] = w.has[id] /\ Own(v, q, n + 1, id) = Own(w, q, n, id)
           /\ \A j \in Own(w, q, n, id) : q[j] = q[j]
    BY <2>1, <2>2
  <2> HIDE DEF i
  <2> QED
    BY <1>3, <2>1, <2>3, <2>4, SameIfOneIs, Zenon
<1>5. CASE Alive(w, c.entity) /\ (c.kind = "Delete" \/ (c.kind = "Add" /\ DeletesEntity(w, c.id)))
  <2>1. v = Delete(w, c.entity) /\ i \in w.alive /\ c.entity.gen = w.gen[i]
    BY <1>5, Zenon DEF Do, Apply, Alive, DeletesEntity
  <2>2. \A j \in n .. Len(q) : ~Takes(q[j])
    <3> SUFFICES ASSUME NEW j \in n .. Len(q), Takes(q[j]) PROVE FALSE
      OBVIOUS
    <3>1. n \in n .. Len(q) /\ (n < j \/ n = j)
      BY <1>1
    <3>2. c.kind \in {"Delete", "Add"}
      BY <1>5
    <3>3. n # j
      BY <3>2 DEF Takes
    <3>4. CASE c.kind = "Delete"
      BY <3>1, <3>3, <3>4 DEF Untangled
    <3>5. CASE c.kind = "Add"
      BY <1>5, <3>1, <3>5 DEF Untangled
    <3> QED
      BY <3>2, <3>4, <3>5
  <2>3. n \in Own(w, q, n, i)
    BY <1>1, <2>1 DEF Own
  <2>4. ASSUME NEW ids \in SUBSET Ids, Safe(ids, w, q, n) PROVE i \notin ids
    <3>1. CASE c.kind = "Delete"
      BY <2>3, <2>4, <3>1 DEF Safe, Ends
    <3>2. CASE c.kind = "Add" /\ DeletesEntity(w, c.id)
      <4>1. c.id \in PolicyPairs /\ c.id.target \notin w.alive
        BY <3>2 DEF DeletesEntity, Invalid, PolicyPairs
      <4>2. \A k \in Own(w, q, n, i) : ~Drops(q[k], c.id)
        BY <2>2, <4>1 DEF Own, Drops, Takes
      <4>3. InEnd(w, q, n, i, c.id)
        BY <2>3, <3>2, <4>2 DEF InEnd, Adds
      <4> QED
        BY <2>4, <4>1, <4>3 DEF Safe
    <3> QED
      BY <1>5, <3>1, <3>2
  <2> DEFINE e == c.entity
  <2>5. e.id \in w.alive /\ v = Delete(w, e) /\ q[n].entity.id = e.id
    BY <2>1
  <2>6. \A ids \in SUBSET Ids : Safe(ids, w, q, n) => e.id \notin ids
    BY <2>4
  <2> HIDE DEF e, c, i
  <2>7. n + 1 \in {n, n + 1}
    OBVIOUS
  <2> QED
    BY <1>1, <2>2, <2>5, <2>6, <2>7, SameIfDoomed
<1>6. CASE Alive(w, c.entity) /\ c.kind # "Delete" /\ ~(c.kind = "Add" /\ DeletesEntity(w, c.id))
  <2>1. v = Apply(w, c)
    BY <1>6 DEF Do
  <2>2. /\ i \in w.alive /\ v.alive = w.alive /\ v.gen = w.gen
        /\ \A id \in Ids \ {i} : v.has[id] = w.has[id]
        /\ \A x \in AllIds : Lasts(x, w) \/ x \in PolicyPairs =>
              (x \in v.has[i] <=> (x \in w.has[i] /\ ~Drops(c, x)) \/ Adds(c, x))
    BY <1>1, <1>6, <2>1, ApplyShape
  <2> DEFINE own == Own(v, q, n + 1, i)
  <2>3. c.entity.gen = w.gen[i]
    BY <1>6 DEF Alive
  <2>4. Own(w, q, n, i) = own \cup {n} /\ \A k \in own : k > n
    BY <1>2, <2>2, <2>3 DEF Own
  <2>5. Ends(w, q, n, i) <=> Ends(v, q, n + 1, i)
    BY <1>6, <2>4 DEF Ends
  <2>6. ASSUME NEW x \in AllIds, Lasts(x, w) \/ x \in PolicyPairs
        PROVE  InEnd(w, q, n, i, x) <=> InEnd(v, q, n + 1, i, x)
    <3>1. x \in v.has[i] <=> (x \in w.has[i] /\ ~Drops(c, x)) \/ Adds(c, x)
      BY <2>2, <2>6
    <3>2. InEnd(v, q, n + 1, i, x) <=>
            \/ x \in v.has[i] /\ \A k \in own : ~Drops(q[k], x)
            \/ \E j \in own : Adds(q[j], x) /\ \A k \in own : k > j => ~Drops(q[k], x)
      BY DEF InEnd
    <3> HIDE DEF own
    <3>3. InEnd(w, q, n, i, x) <=>
            \/ x \in w.has[i] /\ ~Drops(c, x) /\ \A k \in own : ~Drops(q[k], x)
            \/ Adds(c, x) /\ \A k \in own : ~Drops(q[k], x)
            \/ \E j \in own : Adds(q[j], x) /\ \A k \in own : k > j => ~Drops(q[k], x)
      <4>1. \A k \in own : k > n /\ ~(n > k) /\ ~(n > n)
        <5>1. own \subseteq Int
          BY DEF own, Own
        <5> QED
          BY <1>1, <2>4, <5>1
      <4> HIDE DEF Drops, Adds
      <4> QED
        BY <1>1, <2>4, <4>1 DEF InEnd
    <3> QED
      BY <3>1, <3>2, <3>3
  <2>7. \A id \in w.alive \ {i} :
           /\ v.has[id] = w.has[id] /\ Own(v, q, n + 1, id) = Own(w, q, n, id)
           /\ \A j \in Own(w, q, n, id) : q[j] = q[j]
    <3> SUFFICES ASSUME NEW id \in w.alive \ {i}
                 PROVE  v.has[id] = w.has[id] /\ Own(v, q, n + 1, id) = Own(w, q, n, id)
      OBVIOUS
    <3>1. id \in Ids
      BY WorldFacts
    <3>2. Own(v, q, n + 1, id) = Own(w, q, n, id)
      BY <1>2, <2>2 DEF Own
    <3> QED
      BY <2>2, <3>1, <3>2
  <2> HIDE DEF c, i
  <2> QED
    BY <1>3, <2>2, <2>5, <2>6, <2>7, SameIfOneIs
<1> QED
  BY <1>4, <1>5, <1>6

-----------------------------------------------------------------------------
(* Values                                                                    *)

\* The value the commands from n on leave an entity's component with: the last
\* that is set, or the one it has.
SetsOf(w, q, n, id, c) == {j \in Own(w, q, n, id) : q[j].kind = "Set" /\ q[j].id = c}
IsEndValue(w, q, n, id, c, v) ==
    \/ \E j \in SetsOf(w, q, n, id, c) : v = q[j].value /\ \A k \in SetsOf(w, q, n, id, c) : k <= j
    \/ SetsOf(w, q, n, id, c) = {} /\ v = w.value[id][c]

\* A command sets a value, leaves it, or takes it away.
LEMMA DoValue ==
    ASSUME NEW w, WorldOK(w), NEW c \in CommandSet, NEW v, v = Do(w, c), NEW id \in v.alive, NEW x \in Components
    PROVE  /\ id \in w.alive /\ v.gen[id] = w.gen[id]
           /\ IF c.entity.id = id /\ c.entity.gen = w.gen[id] /\ c.kind = "Set" /\ c.id = x
              THEN v.value[id][x] = c.value
              ELSE v.value[id][x] \in {Default, w.value[id][x]}
<1>1. CASE ~Alive(w, c.entity)
  BY <1>1 DEF Do, Alive
<1>2. CASE Alive(w, c.entity) /\ (c.kind = "Delete" \/ (c.kind = "Add" /\ DeletesEntity(w, c.id)))
  <2> DEFINE e == c.entity
  <2>1. v = Delete(w, e) /\ e.id \in w.alive
    BY <1>2 DEF Do, Apply, Alive, DeletesEntity
  <2> HIDE DEF e
  <2>2. id \in w.alive /\ v.gen[id] = w.gen[id] /\ v.value[id] = w.value[id]
    BY <2>1, DeleteShape
  <2> QED
    BY <1>2, <2>2
<1>3. CASE Alive(w, c.entity) /\ c.kind # "Delete" /\ ~(c.kind = "Add" /\ DeletesEntity(w, c.id))
  <2> DEFINE i == c.entity.id
  <2>1. v = Apply(w, c)
    BY <1>3 DEF Do
  <2>2. i = c.entity.id
    OBVIOUS
  <2> HIDE DEF i
  <2>3. /\ v.alive = w.alive /\ v.gen = w.gen
        /\ \A j \in Ids \ {i} : v.value[j] = w.value[j]
        /\ v.value[i][x] = IF c.kind = "Set" /\ c.id = x THEN c.value
                           ELSE IF c.kind \in {"Modified", "Skip"} THEN w.value[i][x]
                           ELSE IF c.kind = "Add" /\ Invalid(w, c.id) THEN w.value[i][x]
                           ELSE IF x \in v.has[i] /\ x \in w.has[i] THEN w.value[i][x]
                           ELSE Default
    BY <1>3, <2>1, <2>2, ApplyShape
  <2>4. id \in Ids /\ id \in w.alive
    BY <2>3, WorldFacts
  <2>5. c.entity.gen = w.gen[i]
    BY <1>3, <2>2 DEF Alive
  <2>6. CASE id = i
    BY <2>2, <2>3, <2>4, <2>5, <2>6
  <2>7. CASE id # i
    BY <2>2, <2>3, <2>4, <2>7
  <2> QED
    BY <2>6, <2>7
<1> QED
  BY <1>1, <1>2, <1>3

\* ... so that the commands after it leave the value that was to be, or none.
LEMMA DoEndValue ==
    ASSUME NEW w, WorldOK(w), NEW q \in Seq(CommandSet), NEW n \in 1 .. Len(q),
           NEW v, v = Do(w, q[n]), NEW id \in v.alive, NEW x \in Components,
           NEW u, IsEndValue(w, q, n, id, x, u)
    PROVE  IsEndValue(v, q, n + 1, id, x, u) \/ IsEndValue(v, q, n + 1, id, x, Default)
<1> DEFINE old == SetsOf(w, q, n, id, x)  new == SetsOf(v, q, n + 1, id, x)  c == q[n]
           sets == c.entity.id = id /\ c.entity.gen = w.gen[id] /\ c.kind = "Set" /\ c.id = x
<1>1. c \in CommandSet /\ n \in Nat /\ Len(q) \in Nat /\ n <= Len(q)
  OBVIOUS
<1>2. \A j : /\ j \in n .. Len(q) <=> j \in n + 1 .. Len(q) \/ j = n
             /\ j \in n + 1 .. Len(q) => j > n /\ j \in Nat
  BY <1>1
<1>3. /\ id \in w.alive /\ v.gen[id] = w.gen[id]
      /\ IF sets THEN v.value[id][x] = c.value ELSE v.value[id][x] \in {Default, w.value[id][x]}
  <2> HIDE DEF c
  <2> QED
    BY <1>1, DoValue DEF c
<1>4. /\ old = new \cup (IF sets THEN {n} ELSE {})
      /\ \A j \in new : j > n /\ j \in Nat
  BY <1>2, <1>3 DEF SetsOf, Own
<1>5. /\ \/ \E j \in old : u = q[j].value /\ \A k \in old : k <= j
         \/ old = {} /\ u = w.value[id][x]
      /\ \A y : IsEndValue(v, q, n + 1, id, x, y) <=>
            \/ \E j \in new : y = q[j].value /\ \A k \in new : k <= j
            \/ new = {} /\ y = v.value[id][x]
  BY DEF IsEndValue
<1> HIDE DEF old, new, c, sets
<1>6. CASE new # {}
  <2>1. PICK j \in old : u = q[j].value /\ \A k \in old : k <= j
    BY <1>4, <1>5, <1>6
  <2>2. PICK l \in new : TRUE
    BY <1>6
  <2>3. l <= j /\ l > n
    BY <1>4, <2>1, <2>2
  <2>4. j # n
    BY <1>1, <1>4, <2>2, <2>3
  <2>5. j \in new
    BY <1>4, <2>1, <2>4
  <2> QED
    BY <1>4, <1>5, <2>1, <2>5
<1>7. CASE new = {} /\ sets
  <2>1. old = {n}
    BY <1>4, <1>7
  <2>2. u = c.value
    BY <1>5, <2>1 DEF c
  <2> QED
    BY <1>3, <1>5, <1>7, <2>2
<1>8. CASE new = {} /\ ~sets
  <2>1. old = {}
    BY <1>4, <1>8
  <2> QED
    BY <1>3, <1>5, <1>8, <2>1
<1> QED
  BY <1>6, <1>7, <1>8

-----------------------------------------------------------------------------
(* The commands one by one                                                   *)

\* Entities that need nothing but each other, in a world where nothing is queued.
Closed(ids, z) ==
    /\ ids \subseteq z.alive
    /\ \A id \in ids : \A p \in PolicyPairs : p \in z.has[id] => p.target \in ids

\* The commands from n on lead to z, up to values that have gone.
Leads(w, q, n, z) ==
    /\ \A ids \in SUBSET Ids : Safe(ids, w, q, n) <=> Closed(ids, z)
    /\ \A id \in z.alive : \A x \in AllIds :
          Lasts(x, z) => (x \in z.has[id] <=> InEnd(w, q, n, id, x))
    /\ \A id \in z.alive : \A c \in z.has[id] \cap Components : \A v :
          IsEndValue(w, q, n, id, c, v) => z.value[id][c] \in {Default, v}
    /\ Untangled(w, q, n)

\* The outcome that FlushIsSequential names is reached.
Reached(w, z) ==
    /\ w.alive = z.alive
    /\ w.has = z.has
    /\ \A id \in w.alive : \A c \in w.has[id] \cap Components :
          z.value[id][c] \in {Default, w.value[id][c]}

\* What is alive is closed.
LEMMA AliveClosed ==
    ASSUME NEW z, WorldOK(z)
    PROVE  Closed(z.alive, z) /\ z.alive \in SUBSET Ids
<1>1. z.alive \in SUBSET Ids
  BY WorldFacts
<1>2. \A id \in z.alive : \A p \in PolicyPairs : p \in z.has[id] => p.target \in z.alive
  BY DEF WorldOK, PolicyPairs
<1> QED
  BY <1>1, <1>2 DEF Closed

\* Where no command is left, the outcome is what there is.
LEMMA NothingToCome ==
    ASSUME NEW w, NEW q, NEW n \in Nat, Len(q) \in Nat, n > Len(q)
    PROVE  /\ \A ids : Safe(ids, w, q, n) <=> Closed(ids, w)
           /\ \A id, x : InEnd(w, q, n, id, x) <=> x \in w.has[id]
           /\ \A id, x, u : IsEndValue(w, q, n, id, x, u) <=> u = w.value[id][x]
<1>1. \A id : Own(w, q, n, id) = {}
  <2>1. n .. Len(q) = {}
    OBVIOUS
  <2> QED
    BY <2>1 DEF Own
<1>2. \A id, x : InEnd(w, q, n, id, x) <=> x \in w.has[id]
  BY <1>1 DEF InEnd
<1>3. \A id, x, u : IsEndValue(w, q, n, id, x, u) <=> u = w.value[id][x]
  BY <1>1 DEF IsEndValue, SetsOf
<1>4. \A id : ~Ends(w, q, n, id)
  BY <1>1 DEF Ends
<1>5. \A ids : Safe(ids, w, q, n) <=> Closed(ids, w)
  BY <1>2, <1>4 DEF Safe, Closed
<1> QED
  BY <1>2, <1>3, <1>5

LEMMA LeadsReached ==
    ASSUME NEW w, WorldOK(w), NEW z, WorldOK(z), NEW q, NEW n \in Nat, Len(q) \in Nat, n > Len(q),
           Leads(w, q, n, z)
    PROVE  Reached(w, z)
<1>1. /\ \A ids \in SUBSET Ids : Closed(ids, w) <=> Closed(ids, z)
      /\ \A id \in z.alive : \A x \in AllIds : Lasts(x, z) => (x \in z.has[id] <=> x \in w.has[id])
      /\ \A id \in z.alive : \A c \in z.has[id] \cap Components : z.value[id][c] \in {Default, w.value[id][c]}
  BY NothingToCome, Zenon DEF Leads
<1>2. w.alive = z.alive
  <2>1. Closed(w.alive, z) /\ Closed(z.alive, w)
    BY <1>1, AliveClosed
  <2> QED
    BY <2>1, Zenon DEF Closed
<1>3. ASSUME NEW id \in Ids PROVE w.has[id] = z.has[id]
  <2>1. CASE id \in z.alive
    <3>1. w.has[id] \subseteq SoundIds(w) /\ z.has[id] \subseteq SoundIds(z)
      BY WorldFacts
    <3>2. \A x \in w.has[id] \cup z.has[id] : x \in AllIds /\ Lasts(x, z)
      BY <1>2, <3>1 DEF SoundIds, Lasts
    <3> QED
      BY <1>1, <2>1, <3>2, Zenon
  <2>2. CASE id \notin z.alive
    BY <1>2, <2>2, Zenon DEF WorldOK
  <2> QED
    BY <2>1, <2>2
<1>4. w.has = z.has
  <2>1. w.has \in [Ids -> SUBSET AllIds] /\ z.has \in [Ids -> SUBSET AllIds]
    BY WorldFacts
  <2> QED
    BY <1>3, <2>1
<1> QED
  BY <1>1, <1>2, <1>4 DEF Reached

\* A step that leads where the commands did leads to their outcome, if it leaves
\* the values.
LEMMA LeadsSame ==
    ASSUME NEW w, NEW q, NEW n, NEW z, WorldOK(z), Leads(w, q, n, z),
           NEW v, NEW r, NEW m, SameEnd(w, q, n, v, r, m),
           \A id \in v.alive : ~Ends(v, r, m, id) =>
              \A c \in Components : InEnd(w, q, n, id, c) =>
                 \A u : IsEndValue(v, r, m, id, c, u) => IsEndValue(w, q, n, id, c, u)
    PROVE  Leads(v, r, m, z)
<1>1. \A ids \in SUBSET Ids : Safe(ids, v, r, m) <=> Closed(ids, z)
  BY DEF Leads, SameEnd
<1>2. z.alive \subseteq v.alive /\ \A id \in z.alive : ~Ends(v, r, m, id)
  <2>1. Safe(z.alive, v, r, m)
    BY <1>1, AliveClosed
  <2> QED
    BY <2>1 DEF Safe
<1>3. ASSUME NEW id \in z.alive, NEW x \in AllIds, Lasts(x, z)
      PROVE  x \in z.has[id] <=> InEnd(v, r, m, id, x)
  <2>1. x \in z.has[id] <=> InEnd(w, q, n, id, x)
    BY <1>3 DEF Leads
  <2>2. Lasts(x, v)
    BY <1>2, <1>3 DEF Lasts
  <2>3. InEnd(w, q, n, id, x) <=> InEnd(v, r, m, id, x)
    BY <1>2, <2>2 DEF SameEnd
  <2> QED
    BY <2>1, <2>3
<1>4. ASSUME NEW id \in z.alive, NEW c \in z.has[id] \cap Components, NEW u,
             IsEndValue(v, r, m, id, c, u)
      PROVE  z.value[id][c] \in {Default, u}
  <2>1. c \in AllIds /\ Lasts(c, z)
    BY IdsAssumption DEF AllIds, Lasts
  <2>2. InEnd(w, q, n, id, c)
    BY <2>1 DEF Leads
  <2>3. IsEndValue(w, q, n, id, c, u)
    BY <1>2, <1>4, <2>2
  <2> QED
    BY <2>3 DEF Leads
<1>5. Untangled(v, r, m)
  BY DEF Leads, SameEnd
<1> QED
  BY <1>1, <1>3, <1>4, <1>5 DEF Leads

\* Steps that are functions can be done one after the other.
LEMMA StepsExist ==
    ASSUME NEW S, NEW a \in S, NEW L \in Nat, NEW step \in [1 .. L -> [S -> S]]
    PROVE  \E f \in [0 .. L -> S] : f[0] = a /\ \A n \in 1 .. L : f[n] = step[n][f[n - 1]]
<1> DEFINE Run(n) == \E f \in [0 .. n -> S] :
                        f[0] = a /\ \A j \in 1 .. n : f[j] = step[j][f[j - 1]]
<1>1. Run(0)
  <2> DEFINE f == [j \in 0 .. 0 |-> a]
  <2>1. f \in [0 .. 0 -> S] /\ f[0] = a
    OBVIOUS
  <2>2. \A j \in 1 .. 0 : FALSE
    OBVIOUS
  <2> HIDE DEF f
  <2> QED
    BY <2>1, <2>2
<1>2. ASSUME NEW n \in 0 .. L - 1, Run(n) PROVE Run(n + 1)
  <2>1. PICK f \in [0 .. n -> S] : f[0] = a /\ \A j \in 1 .. n : f[j] = step[j][f[j - 1]]
    BY <1>2
  <2> DEFINE next == step[n + 1][f[n]]
             g == [j \in 0 .. n + 1 |-> IF j = n + 1 THEN next ELSE f[j]]
  <2>2. n \in Nat /\ n \in 0 .. n /\ n + 1 \in 1 .. L
    OBVIOUS
  <2>3. next \in S
    BY <2>1, <2>2
  <2> HIDE DEF next
  <2>4. g \in [0 .. n + 1 -> S] /\ g[0] = a
    BY <2>1, <2>2, <2>3
  <2>5. ASSUME NEW j \in 1 .. n + 1 PROVE g[j] = step[j][g[j - 1]]
    <3>1. CASE j = n + 1
      <4>1. g[j] = next /\ g[j - 1] = f[n] /\ j - 1 = n
        BY <2>2, <3>1
      <4> QED
        BY <3>1, <4>1 DEF next
    <3>2. CASE j # n + 1
      <4>1. j \in 1 .. n /\ g[j] = f[j] /\ g[j - 1] = f[j - 1]
        BY <2>2, <3>2
      <4> QED
        BY <2>1, <4>1
    <3> QED
      BY <3>1, <3>2
  <2> HIDE DEF g
  <2> QED
    BY <2>4, <2>5, Zenon
<1>3. Run(L)
  <2> DEFINE U == {n \in 0 .. L : ~Run(n)}
  <2>1. L \in 0 .. L
    OBVIOUS
  <2> HIDE DEF Run
  <2> SUFFICES ASSUME U # {} PROVE FALSE
    BY <2>1
  <2>2. U \in SUBSET Nat
    OBVIOUS
  <2> HIDE DEF U
  <2>3. PICK n \in U : \A m \in U : n <= m
    BY <2>2, SmallestOf
  <2>4. n \in 0 .. L /\ ~Run(n) /\ n # 0
    BY <1>1, <2>3 DEF U
  <2> HIDE DEF Run
  <2>5. n - 1 \in 0 .. L - 1 /\ (n - 1) + 1 = n
    BY <2>4
  <2>6. n - 1 \notin U
    BY <2>3, <2>4
  <2>7. Run(n - 1)
    BY <2>5, <2>6 DEF U
  <2>8. Run((n - 1) + 1)
    BY <1>2, <2>5, <2>7
  <2> QED
    BY <2>4, <2>5, <2>8
<1> QED
  BY <1>3

\* The commands as they were called.
Called(q) == [j \in 1 .. Len(q) |-> [q[j] EXCEPT !.kind = q[j].op]]

\* The commands of a queue that takes new ones: some sets were written at once.
QueuedOK(q) ==
    \A j \in 1 .. Len(q) :
        /\ q[j].kind = q[j].op \/ (q[j].op = "Set" /\ q[j].kind = "AddModified")
        /\ q[j].op \in {"Add", "Remove", "Set", "Clear", "Delete"}
        /\ q[j].op = "Clear" => q[j].id \notin Pairs

LEMMA CalledFacts ==
    ASSUME NEW q \in Seq(CommandSet), QueuedOK(q), NEW r, r = Called(q)
    PROVE  /\ r \in Seq(CommandSet) /\ Len(r) = Len(q)
           /\ \A j \in 1 .. Len(q) :
                 /\ r[j] = [q[j] EXCEPT !.kind = q[j].op]
                 /\ r[j].kind = q[j].op /\ r[j].entity = q[j].entity
                 /\ r[j].id = q[j].id /\ r[j].value = q[j].value
<1> DEFINE Call(j) == [q[j] EXCEPT !.kind = q[j].op]
<1>1. ASSUME NEW j \in 1 .. Len(q)
      PROVE  /\ Call(j) \in CommandSet /\ Call(j).kind = q[j].op /\ Call(j).entity = q[j].entity
             /\ Call(j).id = q[j].id /\ Call(j).value = q[j].value
  <2> DEFINE c == q[j]
  <2>1. /\ c \in CommandSet
        /\ c.kind = c.op \/ (c.op = "Set" /\ c.kind = "AddModified")
    BY DEF QueuedOK
  <2> HIDE DEF c
  <2>2. /\ [c EXCEPT !.kind = c.op] \in CommandSet /\ [c EXCEPT !.kind = c.op].kind = c.op
        /\ [c EXCEPT !.kind = c.op].entity = c.entity
        /\ [c EXCEPT !.kind = c.op].id = c.id /\ [c EXCEPT !.kind = c.op].value = c.value
    BY <2>1, Zenon DEF CommandSet
  <2> QED
    BY <2>2 DEF c
<1>2. r = [j \in 1 .. Len(q) |-> Call(j)]
  BY DEF Called
<1>3. \A j \in 1 .. Len(q) : Call(j) = [q[j] EXCEPT !.kind = q[j].op]
  OBVIOUS
<1> HIDE DEF Call
<1>4. r \in Seq(CommandSet) /\ Len(r) = Len(q) /\ \A j \in 1 .. Len(q) : r[j] = Call(j)
  BY <1>1, <1>2
<1> QED
  BY <1>1, <1>3, <1>4, Zenon

\* The worlds after each of the commands.
IsRun(f, w, q) ==
    f = [n \in 0 .. Len(q) |->
            IF n = 0 THEN w
            ELSE IF Alive(f[n - 1], q[n].entity)
            THEN Apply(f[n - 1], [q[n] EXCEPT !.kind = q[n].op])
            ELSE f[n - 1]]

LEMMA RunExists ==
    ASSUME NEW w, WorldOK(w), NEW q \in Seq(CommandSet), QueuedOK(q)
    PROVE  \E f : IsRun(f, w, q)
<1> DEFINE S == {u \in WorldSet : WorldOK(u)}  L == Len(q)
           After(n, u) == IF Alive(u, q[n].entity) THEN Apply(u, [q[n] EXCEPT !.kind = q[n].op]) ELSE u
           step == [n \in 1 .. L |-> [u \in S |-> After(n, u)]]
<1>1. w \in S /\ L \in Nat
  BY WorldFacts
<1>2. ASSUME NEW n \in 1 .. L, NEW u \in S PROVE After(n, u) \in S
  <2> DEFINE c == [q[n] EXCEPT !.kind = q[n].op]
  <2>1. c \in CommandSet /\ c.entity = q[n].entity
    BY CalledFacts
  <2>2. c = [q[n] EXCEPT !.kind = q[n].op]
    OBVIOUS
  <2> HIDE DEF c
  <2>3. Alive(u, q[n].entity) => WorldOK(Apply(u, c))
    BY <2>1, ApplyOK
  <2>4. \A z : WorldOK(z) => z \in S
    BY WorldFacts
  <2> HIDE DEF S
  <2> QED
    BY <1>2, <2>2, <2>3, <2>4
<1> HIDE DEF S, After, L
<1>3. step \in [1 .. L -> [S -> S]] /\ \A n \in 1 .. L : \A u \in S : step[n][u] = After(n, u)
  BY <1>2
<1> HIDE DEF step
<1>4. PICK f \in [0 .. L -> S] : f[0] = w /\ \A n \in 1 .. L : f[n] = step[n][f[n - 1]]
  <2>1. w \in S
    BY <1>1
  <2>2. L \in Nat
    BY <1>1
  <2>3. step \in [1 .. L -> [S -> S]]
    BY <1>3
  <2>4. \E f \in [0 .. L -> S] : f[0] = w /\ \A n \in 1 .. L : f[n] = step[n][f[n - 1]]
    BY <2>1, <2>2, <2>3, StepsExist
  <2> QED
    BY <2>4, Zenon
<1>5. \A n \in 0 .. L : f[n] = IF n = 0 THEN w ELSE After(n, f[n - 1])
  <2> SUFFICES ASSUME NEW n \in 0 .. L, n # 0 PROVE f[n] = After(n, f[n - 1])
    BY <1>4
  <2>1. n \in 1 .. L /\ n - 1 \in 0 .. L
    BY <1>1
  <2> QED
    BY <1>3, <1>4, <2>1
<1>6. f = [n \in 0 .. L |-> IF n = 0 THEN w ELSE After(n, f[n - 1])]
  BY <1>4, <1>5
<1> QED
  BY <1>6, Zenon DEF IsRun, After, L

\* One by one, the commands lead from w to the world after the last of them.
LEMMA RunFacts ==
    ASSUME NEW w, WorldOK(w), NEW q \in Seq(CommandSet), QueuedOK(q),
           NEW r, r = Called(q), Untangled(w, r, 1), NEW z, z = Sequential(w, q)
    PROVE  /\ WorldOK(z) /\ SameEnd(w, r, 1, z, r, Len(r) + 1)
           /\ \A id \in z.alive : \A x \in Components : \A u :
                 IsEndValue(w, r, 1, id, x, u) => z.value[id][x] \in {Default, u}
<1> DEFINE f == CHOOSE f : IsRun(f, w, q)  L == Len(q)
           Values3(v, n) == \A id \in v.alive : \A x \in Components : \A u :
                               IsEndValue(w, r, 1, id, x, u) =>
                                  IsEndValue(v, r, n, id, x, u) \/ IsEndValue(v, r, n, id, x, Default)
           P(n) == /\ WorldOK(f[n]) /\ SameEnd(w, r, 1, f[n], r, n + 1)
                   /\ Untangled(f[n], r, n + 1) /\ Values3(f[n], n + 1)
<1>1. z = f[L]
  BY DEF Sequential, IsRun
<1>2. IsRun(f, w, q)
  BY RunExists
<1> HIDE DEF f
<1>3. /\ r \in Seq(CommandSet) /\ Len(r) = L /\ L \in Nat
      /\ \A j \in 1 .. L : /\ r[j] = [q[j] EXCEPT !.kind = q[j].op]
                           /\ r[j].entity = q[j].entity
  BY CalledFacts
<1>4. f[0] = w /\ \A n \in 1 .. L : f[n] = Do(f[n - 1], r[n])
  <2>1. f[0] = w
    BY <1>2, <1>3 DEF IsRun
  <2>2. ASSUME NEW n \in 1 .. L PROVE f[n] = Do(f[n - 1], r[n])
    <3>1. n \in 0 .. L /\ n # 0
      BY <1>3
    <3>2. f[n] = IF Alive(f[n - 1], q[n].entity)
                 THEN Apply(f[n - 1], [q[n] EXCEPT !.kind = q[n].op])
                 ELSE f[n - 1]
      BY <1>2, <3>1, Zenon DEF IsRun
    <3>3. r[n] = [q[n] EXCEPT !.kind = q[n].op] /\ r[n].entity = q[n].entity
      BY <1>3
    <3> QED
      BY <3>2, <3>3 DEF Do
  <2> QED
    BY <2>1, <2>2
<1>5. P(0)
  BY <1>4, SameEndRefl
<1>6. ASSUME NEW n \in 1 .. L, P(n - 1) PROVE P(n)
  <2> DEFINE v == f[n - 1]  y == f[n]
  <2>1. /\ WorldOK(v) /\ SameEnd(w, r, 1, v, r, n) /\ Untangled(v, r, n) /\ Values3(v, n)
        /\ y = Do(v, r[n]) /\ n \in 1 .. Len(r)
    <3>1. (n - 1) + 1 = n
      OBVIOUS
    <3> QED
      BY <1>3, <1>4, <1>6, <3>1
  <2> HIDE DEF v, y
  <2>2. SameEnd(v, r, n, y, r, n + 1)
    BY <1>3, <2>1, DoSame
  <2>3. SameEnd(w, r, 1, y, r, n + 1)
    BY <2>1, <2>2, SameEndTrans
  <2>4. Untangled(y, r, n + 1)
    BY <2>1, <2>2 DEF SameEnd
  <2>5. WorldOK(y)
    <3>1. r[n] \in CommandSet
      BY <1>3, <2>1
    <3> QED
      BY <2>1, <3>1, ApplyOK DEF Do
  <2>6. Values3(y, n + 1)
    <3> SUFFICES ASSUME NEW id \in y.alive, NEW x \in Components, NEW u, IsEndValue(w, r, 1, id, x, u)
                 PROVE  IsEndValue(y, r, n + 1, id, x, u) \/ IsEndValue(y, r, n + 1, id, x, Default)
      OBVIOUS
    <3>1. id \in v.alive
      BY <2>2 DEF SameEnd
    <3>2. IsEndValue(v, r, n, id, x, u) \/ IsEndValue(v, r, n, id, x, Default)
      BY <2>1, <3>1
    <3> QED
      BY <1>3, <2>1, <3>2, DoEndValue
  <2> QED
    BY <2>3, <2>4, <2>5, <2>6 DEF y
<1>7. P(L)
  <2> DEFINE U == {n \in 0 .. L : ~P(n)}
  <2> SUFFICES ASSUME U # {} PROVE FALSE
    BY <1>3
  <2>1. U \in SUBSET Nat
    BY <1>3
  <2> HIDE DEF P
  <2> HIDE DEF U
  <2>2. PICK n \in U : \A m \in U : n <= m
    BY <2>1, SmallestOf
  <2>3. n \in 0 .. L /\ ~P(n) /\ n # 0
    BY <1>5, <2>2 DEF U
  <2>4. n \in 1 .. L /\ n - 1 \in 0 .. L
    BY <1>3, <2>3
  <2>5. n - 1 \notin U
    BY <2>2, <2>3
  <2> QED
    BY <1>6, <2>3, <2>4, <2>5 DEF U
<1>8. /\ WorldOK(z) /\ SameEnd(w, r, 1, z, r, Len(r) + 1) /\ Values3(z, Len(r) + 1)
  BY <1>1, <1>3, <1>7
<1>9. \A id, x, u : IsEndValue(z, r, Len(r) + 1, id, x, u) <=> u = z.value[id][x]
  <2>1. (Len(r) + 1) .. Len(r) = {}
    BY <1>3
  <2> QED
    BY <2>1 DEF IsEndValue, SetsOf, Own
<1> QED
  BY <1>8, <1>9

\* The commands of an entity have its handle.
LEMMA OwnFacts ==
    ASSUME NEW w, NEW q \in Seq(CommandSet), NEW n \in Nat, n # 0, NEW id, NEW j \in Own(w, q, n, id)
    PROVE  /\ j \in 1 .. Len(q) /\ j \in Nat /\ n <= j /\ q[j] \in CommandSet
           /\ q[j].entity = [id |-> id, gen |-> w.gen[id]]
<1>1. j \in 1 .. Len(q) /\ j \in Nat /\ n <= j /\ q[j].entity.id = id /\ q[j].entity.gen = w.gen[id]
  BY DEF Own
<1>2. q[j] \in CommandSet
  BY <1>1
<1>3. q[j].entity \in Handles
  BY <1>2 DEF CommandSet
<1> QED
  BY <1>1, <1>2, <1>3 DEF Handles

\* What is called leads to what the queue does, up to the values that are in
\* place.
LEMMA CalledLeads ==
    ASSUME NEW w, NEW q \in Seq(CommandSet), QueuedOK(q), NEW r, r = Called(q)
    PROVE  /\ \A ids : Safe(ids, w, q, 1) <=> Safe(ids, w, r, 1)
           /\ \A id, x : InEnd(w, q, 1, id, x) <=> InEnd(w, r, 1, id, x)
           /\ Untangled(w, r, 1) => Untangled(w, q, 1)
<1>1. /\ r \in Seq(CommandSet) /\ Len(r) = Len(q)
      /\ \A j \in 1 .. Len(q) :
            /\ r[j] = [q[j] EXCEPT !.kind = q[j].op]
            /\ r[j].kind = q[j].op /\ r[j].entity = q[j].entity
            /\ r[j].id = q[j].id /\ r[j].value = q[j].value
  BY CalledFacts
<1>2. \A id : Own(w, r, 1, id) = Own(w, q, 1, id) /\ \A j \in Own(w, q, 1, id) : j \in 1 .. Len(q)
  BY <1>1, Zenon DEF Own
<1>3. \A j \in 1 .. Len(q) :
         /\ q[j].kind = "Delete" <=> r[j].kind = "Delete"
         /\ q[j].kind \in {"Add", "Remove"} <=> r[j].kind \in {"Add", "Remove"}
         /\ q[j].kind = "Clear" <=> r[j].kind = "Clear"
         /\ q[j].kind = "Remove" <=> r[j].kind = "Remove"
         /\ q[j].kind \in {"Add", "Set", "AddModified"} <=> r[j].kind \in {"Add", "Set", "AddModified"}
  BY <1>1, Zenon DEF QueuedOK
<1>4. \A j \in 1 .. Len(q) :
         /\ Takes(q[j]) <=> Takes(r[j])
         /\ \A x : (Adds(q[j], x) <=> Adds(r[j], x)) /\ (Drops(q[j], x) <=> Drops(r[j], x))
  BY <1>1, <1>3, Zenon DEF Takes, Adds, Drops
<1>5. \A id : Ends(w, q, 1, id) <=> Ends(w, r, 1, id)
  BY <1>2, <1>3 DEF Ends
<1>6. \A id, x : InEnd(w, q, 1, id, x) <=> InEnd(w, r, 1, id, x)
  BY <1>2, <1>4, Zenon DEF InEnd
<1>7. \A ids : Safe(ids, w, q, 1) <=> Safe(ids, w, r, 1)
  BY <1>5, <1>6 DEF Safe
<1>8. ASSUME Untangled(w, r, 1) PROVE Untangled(w, q, 1)
  <2> SUFFICES ASSUME NEW l \in 1 .. Len(q), Takes(q[l]), NEW j \in 1 .. Len(q)
               PROVE  /\ Takes(q[j]) => \A i \in 1 .. Len(q) : i < j => q[i].kind # "Delete"
                      /\ q[j].kind \in {"Add", "Remove"} => ~DeletesEntity(w, q[j].id)
    BY Zenon DEF Untangled
  <2>1. \A k \in 1 .. Len(q) :
           /\ Takes(r[k]) => \A i \in 1 .. Len(q) : i < k => r[i].kind # "Delete"
           /\ r[k].kind \in {"Add", "Remove"} => ~DeletesEntity(w, r[k].id)
    BY <1>1, <1>4, <1>8 DEF Untangled
  <2> QED
    BY <1>1, <1>3, <1>4, <2>1
<1> QED
  BY <1>6, <1>7, <1>8

\* ... which are those of the last set, where none is overwritten.
LEMMA CalledValues ==
    ASSUME NEW q \in Seq(CommandSet), QueuedOK(q), ~Overwritten(q), ~Lost(q), NEW r, r = Called(q),
           NEW id, NEW c, NEW v, IsEndValue(world, q, 1, id, c, v)
    PROVE  IsEndValue(world, r, 1, id, c, v)
<1> DEFINE old == SetsOf(world, q, 1, id, c)  new == SetsOf(world, r, 1, id, c)
<1>1. /\ r \in Seq(CommandSet) /\ Len(r) = Len(q)
      /\ \A j \in 1 .. Len(q) :
            /\ r[j] = [q[j] EXCEPT !.kind = q[j].op]
            /\ r[j].kind = q[j].op /\ r[j].entity = q[j].entity
            /\ r[j].id = q[j].id /\ r[j].value = q[j].value
  BY CalledFacts
<1>2. \A j \in Own(world, q, 1, id) :
         j \in 1 .. Len(q) /\ q[j].entity = [id |-> id, gen |-> world.gen[id]]
  BY OwnFacts
<1>3. Own(world, r, 1, id) = Own(world, q, 1, id)
  BY <1>1, Zenon DEF Own
<1>4. /\ old = {j \in Own(world, q, 1, id) : q[j].kind = "Set" /\ q[j].id = c}
      /\ new = {j \in Own(world, q, 1, id) : q[j].op = "Set" /\ q[j].id = c}
  BY <1>1, <1>2, <1>3, Zenon DEF SetsOf
<1>5. old \subseteq new
  BY <1>2, <1>4 DEF QueuedOK
<1>6. \/ \E j \in old : v = q[j].value /\ \A k \in old : k <= j
      \/ old = {} /\ v = world.value[id][c]
  BY DEF IsEndValue
<1>7. new \in SUBSET (1 .. Len(q))
  BY <1>2, <1>4
<1>8. \A u : IsEndValue(world, r, 1, id, c, u) <=>
         \/ \E j \in new : u = r[j].value /\ \A k \in new : k <= j
         \/ new = {} /\ u = world.value[id][c]
  BY DEF IsEndValue
<1> HIDE DEF old, new
<1>9. CASE new = {}
  BY <1>5, <1>6, <1>8, <1>9
<1>10. CASE new # {}
  <2>1. Len(q) \in Nat /\ 1 \in Nat
    OBVIOUS
  <2>2. PICK j \in new : \A k \in new : k <= j
    BY <1>7, <1>10, <2>1, LargestOf, Zenon
  <2>3. /\ j \in 1 .. Len(q) /\ r[j].value = q[j].value /\ q[j].op = "Set" /\ q[j].id = c
        /\ q[j].entity = [id |-> id, gen |-> world.gen[id]] /\ j \in Own(world, q, 1, id)
    BY <1>1, <1>2, <1>4, Zenon
  <2>4. q[j].value = v
    <3>1. CASE q[j].kind = "Set"
      <4>1. j \in old
        BY <1>4, <2>3, <3>1
      <4>2. PICK k \in old : v = q[k].value /\ \A l \in old : l <= k
        BY <1>6, <4>1
      <4>3. k <= j /\ j <= k /\ k \in 1 .. Len(q)
        BY <1>5, <1>7, <2>2, <4>1, <4>2
      <4>4. k = j
        BY <2>3, <4>3
      <4> QED
        BY <4>2, <4>4
    <3>2. CASE q[j].kind = "AddModified"
      <4>1. ASSUME NEW k \in 1 .. Len(q), SetsSame(q[k], q[j]) PROVE k \in new
        <5>1. q[k].op = "Set" /\ q[k].entity = q[j].entity /\ q[k].id = c
          BY <2>3, <4>1 DEF SetsSame
        <5>2. k \in Own(world, q, 1, id)
          BY <2>3, <5>1 DEF Own
        <5> QED
          BY <1>4, <5>1, <5>2
      <4>2. \A k \in j + 1 .. Len(q) : ~SetsSame(q[k], q[j])
        <5>1. \A k \in j + 1 .. Len(q) : k \in 1 .. Len(q) /\ ~(k <= j)
          BY <1>1, <2>3
        <5> QED
          BY <2>2, <4>1, <5>1
      <4>3. /\ world.value[id][c] = q[j].value
            /\ \A i \in 1 .. j - 1 : ~(SetsSame(q[i], q[j]) /\ q[i].kind = "Set")
        <5>1. j \in DOMAIN q
          BY <2>3
        <5> QED
          BY <2>3, <3>2, <4>2, <5>1 DEF Overwritten, Lost, IsLastSet
      <4>4. old = {}
        <5> SUFFICES ASSUME NEW k \in old PROVE FALSE
          OBVIOUS
        <5>1. /\ k \in new /\ k <= j /\ k \in 1 .. Len(q) /\ q[k].kind = "Set"
              /\ q[k].op = "Set" /\ q[k].entity = q[j].entity /\ q[k].id = q[j].id
          BY <1>2, <1>4, <1>5, <1>7, <2>2, <2>3
        <5>2. k # j
          BY <3>2, <5>1
        <5>3. k \in 1 .. j - 1
          BY <2>3, <5>1, <5>2
        <5>4. SetsSame(q[k], q[j])
          BY <2>3, <5>1 DEF SetsSame
        <5> QED
          BY <4>3, <5>1, <5>3, <5>4
      <4> QED
        BY <1>6, <4>3, <4>4
    <3>3. q[j].kind \in {"Set", "AddModified"}
      BY <2>3 DEF QueuedOK
    <3> QED
      BY <3>1, <3>2, <3>3
  <2> QED
    BY <1>8, <2>2, <2>3, <2>4
<1> QED
  BY <1>9, <1>10

\* The queue that a flush begins with leads to the outcome that is expected.
LEMMA SequentialLeads ==
    ASSUME WorldOK(world), NEW q \in Seq(CommandSet), QueuedOK(q), ~Tangled(q), ~Overwritten(q), ~Lost(q),
           NEW z, z = Sequential(world, q)
    PROVE  WorldOK(z) /\ Leads(world, q, 1, z)
<1> DEFINE r == Called(q)
<1>1. r = Called(q)
  OBVIOUS
<1> HIDE DEF r
<1>2. /\ r \in Seq(CommandSet) /\ Len(r) = Len(q)
      /\ \A j \in 1 .. Len(q) :
            /\ r[j] = [q[j] EXCEPT !.kind = q[j].op]
            /\ r[j].kind = q[j].op /\ r[j].entity = q[j].entity
            /\ r[j].id = q[j].id /\ r[j].value = q[j].value
  BY <1>1, CalledFacts
<1>3. \A j \in 1 .. Len(q) : Takes(r[j]) <=> TakesAway(q[j])
  BY <1>2, Zenon DEF Takes, TakesAway, PolicyPairs
<1>4. Untangled(world, r, 1)
  <2> SUFFICES ASSUME NEW l \in 1 .. Len(q), Takes(r[l]), NEW j \in 1 .. Len(q)
               PROVE  /\ Takes(r[j]) => \A i \in 1 .. Len(q) : i < j => r[i].kind # "Delete"
                      /\ r[j].kind \in {"Add", "Remove"} => ~DeletesEntity(world, r[j].id)
    BY <1>2 DEF Untangled
  <2>1. DOMAIN q = 1 .. Len(q)
    OBVIOUS
  <2>2. \A i, k \in 1 .. Len(q) : TakesAway(q[k]) =>
           /\ ~(i < k /\ q[i].op = "Delete")
           /\ ~(q[i].op \in {"Add", "Remove"} /\ DeletesEntity(world, q[i].id))
    BY <2>1 DEF Tangled
  <2> QED
    BY <1>2, <1>3, <2>2, Zenon
<1>5. /\ WorldOK(z) /\ SameEnd(world, r, 1, z, r, Len(r) + 1)
      /\ \A id \in z.alive : \A x \in Components : \A u :
            IsEndValue(world, r, 1, id, x, u) => z.value[id][x] \in {Default, u}
  BY <1>1, <1>4, RunFacts
<1>6. /\ \A ids : Safe(ids, world, q, 1) <=> Safe(ids, world, r, 1)
      /\ \A id, x : InEnd(world, q, 1, id, x) <=> InEnd(world, r, 1, id, x)
      /\ Untangled(world, q, 1)
  BY <1>1, <1>4, CalledLeads
<1> DEFINE m == Len(r) + 1
<1>7. /\ \A ids : Safe(ids, z, r, m) <=> Closed(ids, z)
      /\ \A id, x : InEnd(z, r, m, id, x) <=> x \in z.has[id]
  <2>1. m \in Nat /\ Len(r) \in Nat /\ m > Len(r)
    BY <1>2
  <2> HIDE DEF m
  <2> QED
    BY <2>1, NothingToCome, Zenon
<1>8. \A id : ~Ends(z, r, m, id)
  <2>1. m .. Len(r) = {}
    BY <1>2
  <2> QED
    BY <2>1 DEF Ends, Own
<1>9. SameEnd(world, r, 1, z, r, m)
  BY <1>5
<1> HIDE DEF m
<1>10. \A ids \in SUBSET Ids : Safe(ids, world, q, 1) <=> Closed(ids, z)
  BY <1>6, <1>7, <1>9 DEF SameEnd
<1>11. \A id \in z.alive : \A x \in AllIds : Lasts(x, z) => (x \in z.has[id] <=> InEnd(world, q, 1, id, x))
  BY <1>6, <1>7, <1>8, <1>9 DEF SameEnd
<1>12. ASSUME NEW id \in z.alive, NEW c \in z.has[id] \cap Components, NEW v, IsEndValue(world, q, 1, id, c, v)
       PROVE  z.value[id][c] \in {Default, v}
  <2>1. IsEndValue(world, r, 1, id, c, v)
    BY <1>1, <1>12, CalledValues
  <2> QED
    BY <1>5, <2>1
<1> QED
  BY <1>5, <1>6, <1>10, <1>11, <1>12 DEF Leads

-----------------------------------------------------------------------------
(* Chains                                                                    *)

\* The commands of the entity of command j.  Command j is linked to the next of
\* them, if there is one, and the first one of several is marked.
Same(q, j) == {k \in 1 .. Len(q) : q[k].entity = q[j].entity}
LinkAt(q, j) ==
    /\ \A k \in Same(q, j) : k > j =>
          Abs(q[j].next) \in Same(q, j) /\ Abs(q[j].next) > j /\ Abs(q[j].next) <= k
    /\ (\A k \in Same(q, j) : k <= j) => q[j].next = 0
    /\ (\E k \in Same(q, j) : k > j) /\ (\A k \in Same(q, j) : k >= j) => q[j].next < 0

\* The commands of an entity from i on, up to the first that deletes it.
UpToDelete(q, i) ==
    {j \in i .. Len(q) :
        /\ q[j].entity = q[i].entity
        /\ \A k \in Same(q, i) : i <= k /\ k < j => q[k].kind # "Delete"}

\* Command j follows in f from one before it.
Follows(f, q, i, j) ==
    j = i \/ \E k \in i .. j - 1 : f[k] /\ Abs(q[k].next) = j /\ q[k].kind # "Delete"
IsChain(f, q, i) == f = [j \in i .. Len(q) |-> Follows(f, q, i, j)]

LEMMA AbsFacts ==
    ASSUME NEW n \in Int
    PROVE  Abs(n) \in Nat /\ (Abs(n) = 0 <=> n = 0)
  BY DEF Abs

\* In what the links lead to, each command follows from the one before it.
LEMMA UpToDeleteFollows ==
    ASSUME NEW q \in Seq(CommandSet), NEW i \in 1 .. Len(q), \A j \in Same(q, i) : LinkAt(q, j),
           NEW f, f = [j \in i .. Len(q) |-> j \in UpToDelete(q, i)], NEW j \in i .. Len(q)
    PROVE  j \in UpToDelete(q, i) <=> Follows(f, q, i, j)
<1>1. /\ i \in Nat /\ Len(q) \in Nat /\ i <= Len(q) /\ j \in Nat /\ i <= j /\ j <= Len(q)
      /\ Same(q, i) \subseteq Nat
  BY DEF Same
<1>2. \A k : k \in Same(q, i) <=> k \in 1 .. Len(q) /\ q[k].entity = q[i].entity
  BY DEF Same
<1>3. \A k \in Same(q, i) : Same(q, k) = Same(q, i)
  BY <1>2 DEF Same
<1>4. \A k : k \in UpToDelete(q, i) <=>
         /\ k \in Same(q, i) /\ i <= k
         /\ \A l \in Same(q, i) : i <= l /\ l < k => q[l].kind # "Delete"
  BY <1>1, <1>2 DEF UpToDelete
<1>5. \A k \in i .. Len(q) : f[k] <=> k \in UpToDelete(q, i)
  BY Zenon
<1>6. \A k \in Same(q, i) : Abs(q[k].next) \in Nat
  <2>1. \A k \in Same(q, i) : q[k] \in CommandSet
    BY <1>2
  <2>2. \A k \in Same(q, i) : q[k].next \in Int
    BY <2>1 DEF CommandSet
  <2> QED
    BY <2>2, AbsFacts, Zenon
<1>7. ASSUME j \in UpToDelete(q, i), j # i
      PROVE  \E k \in i .. j - 1 : k \in UpToDelete(q, i) /\ Abs(q[k].next) = j /\ q[k].kind # "Delete"
  <2> DEFINE before == {k \in Same(q, i) : i <= k /\ k < j}
  <2>1. before \in SUBSET (i .. Len(q)) /\ i \in before
    BY <1>1, <1>2, <1>7
  <2> HIDE DEF before
  <2>2. PICK k \in before : \A l \in before : l <= k
    BY <1>1, <2>1, LargestOf, Zenon
  <2>3. k \in Same(q, i) /\ i <= k /\ k < j /\ j \in Same(q, i)
    BY <1>4, <1>7, <2>2 DEF before
  <2>4. k \in UpToDelete(q, i) /\ q[k].kind # "Delete"
    BY <1>1, <1>4, <1>7, <2>3
  <2>5. Abs(q[k].next) \in Same(q, i) /\ Abs(q[k].next) > k /\ Abs(q[k].next) <= j
    BY <1>3, <2>3 DEF LinkAt
  <2>6. Abs(q[k].next) = j
    <3> SUFFICES ASSUME Abs(q[k].next) # j PROVE FALSE
      OBVIOUS
    <3>1. Abs(q[k].next) \in before
      BY <1>1, <1>6, <2>3, <2>5 DEF before
    <3>2. Abs(q[k].next) <= k
      BY <2>2, <3>1
    <3> QED
      BY <1>1, <1>6, <2>3, <2>5, <3>2
  <2> QED
    BY <1>1, <2>3, <2>4, <2>6
<1>8. ASSUME NEW k \in i .. j - 1, k \in UpToDelete(q, i), Abs(q[k].next) = j, q[k].kind # "Delete"
      PROVE  j \in UpToDelete(q, i)
  <2>1. k \in Same(q, i) /\ i <= k /\ k < j /\ k \in Nat
    BY <1>1, <1>4, <1>8
  <2>2. LinkAt(q, k) /\ Same(q, k) = Same(q, i)
    BY <1>3, <2>1
  <2>3. \E l \in Same(q, i) : l > k
    <3> SUFFICES ASSUME \A l \in Same(q, i) : ~(l > k) PROVE FALSE
      OBVIOUS
    <3>1. \A l \in Same(q, i) : l <= k
      BY <1>1, <2>1
    <3>2. q[k].next = 0
      BY <2>2, <3>1 DEF LinkAt
    <3>3. j = 0
      BY <1>8, <3>2 DEF Abs
    <3> QED
      BY <1>1, <3>3
  <2>4. j \in Same(q, i) /\ \A l \in Same(q, i) : l > k => j <= l
    BY <1>8, <2>2, <2>3 DEF LinkAt
  <2>5. ASSUME NEW l \in Same(q, i), i <= l, l < j PROVE q[l].kind # "Delete"
    <3>1. l <= k
      BY <1>1, <2>1, <2>4, <2>5
    <3>2. l = k \/ l < k
      BY <1>1, <2>1, <3>1
    <3> QED
      BY <1>4, <1>8, <2>5, <3>2
  <2> QED
    BY <1>1, <1>4, <2>4, <2>5
<1>9. i \in UpToDelete(q, i)
  BY <1>1, <1>2, <1>4
<1>10. \A k \in i .. j - 1 : k \in i .. Len(q)
  BY <1>1
<1> QED
  BY <1>5, <1>7, <1>8, <1>9, <1>10 DEF Follows

\* A function that follows the links is the only one.
LEMMA ChainUnique ==
    ASSUME NEW q \in Seq(CommandSet), NEW i \in 1 .. Len(q),
           NEW f, IsChain(f, q, i), NEW g, IsChain(g, q, i), NEW j \in i .. Len(q)
    PROVE  f[j] <=> g[j]
<1> DEFINE S == {k \in i .. Len(q) : ~(f[k] <=> g[k])}
<1> SUFFICES ASSUME S # {} PROVE FALSE
  OBVIOUS
<1>1. S \in SUBSET Nat
  OBVIOUS
<1> HIDE DEF S
<1>2. PICK n \in S : \A m \in S : n <= m
  BY <1>1, SmallestOf
<1>3. n \in i .. Len(q) /\ ~(f[n] <=> g[n])
  BY <1>2 DEF S
<1>4. \A k \in i .. n - 1 : k \in i .. Len(q) /\ ~(n <= k)
  BY <1>3
<1>5. \A k \in i .. n - 1 : f[k] <=> g[k]
  BY <1>2, <1>4 DEF S
<1>6. Follows(f, q, i, n) <=> Follows(g, q, i, n)
  BY <1>5 DEF Follows
<1>7. (f[n] <=> Follows(f, q, i, n)) /\ (g[n] <=> Follows(g, q, i, n))
  BY <1>3, Zenon DEF IsChain
<1> QED
  BY <1>3, <1>6, <1>7

\* The chain of a batch has all the commands of the entity that it has to have.
LEMMA ChainIs ==
    ASSUME NEW q \in Seq(CommandSet), NEW i \in 1 .. Len(q), \A j \in Same(q, i) : LinkAt(q, j)
    PROVE  Chain(q, i) = UpToDelete(q, i)
<1> DEFINE f == CHOOSE f : IsChain(f, q, i)
           g == [j \in i .. Len(q) |-> j \in UpToDelete(q, i)]
<1>1. Chain(q, i) = {j \in i .. Len(q) : f[j]}
  BY DEF Chain, IsChain, Follows
<1>2. IsChain(g, q, i)
  <2>1. g = [j \in i .. Len(q) |-> j \in UpToDelete(q, i)]
    OBVIOUS
  <2> HIDE DEF g
  <2>2. \A j \in i .. Len(q) : j \in UpToDelete(q, i) <=> Follows(g, q, i, j)
    BY <2>1, UpToDeleteFollows
  <2>3. \A j \in i .. Len(q) : (j \in UpToDelete(q, i)) = Follows(g, q, i, j)
    BY <2>2 DEF Follows
  <2>4. [j \in i .. Len(q) |-> j \in UpToDelete(q, i)] = [j \in i .. Len(q) |-> Follows(g, q, i, j)]
    BY <2>3
  <2> QED
    BY <2>1, <2>4 DEF IsChain
<1>3. \A j \in i .. Len(q) : g[j] <=> j \in UpToDelete(q, i)
  BY Zenon
<1>4. IsChain(f, q, i)
  BY <1>2
<1> HIDE DEF f, g
<1>5. \A j \in i .. Len(q) : f[j] <=> g[j]
  BY <1>2, <1>4, ChainUnique
<1>6. UpToDelete(q, i) \subseteq i .. Len(q)
  BY DEF UpToDelete
<1> QED
  BY <1>1, <1>3, <1>5, <1>6

\* A command of a batch that deletes nothing does to the type what it says, up to
\* pairs that are not valid.
LEMMA TypeAfterIs ==
    ASSUME NEW w, NEW c \in CommandSet, c.kind = "Clear" => c.id \notin Pairs,
           ~(c.kind \in {"Add", "Remove"} /\ DeletesEntity(w, c.id)),
           NEW x \in AllIds, Lasts(x, w) \/ x \in PolicyPairs, NEW before
    PROVE  x \in TypeAfter(w, c, before) <=> (x \in before /\ ~Drops(c, x)) \/ Adds(c, x)
<1>1. c.kind \in {"Set", "AddModified"} => ~Invalid(w, c.id)
  BY IdsAssumption DEF CommandSet, Invalid
<1>2. c.kind \in {"Add", "Remove"} /\ Invalid(w, c.id) => c.id # x
  BY DEF Invalid, DeletesEntity, Lasts, PolicyPairs
<1>3. c.kind = "Clear" => ~Invalid(w, c.id)
  BY DEF Invalid
<1>4. CASE Invalid(w, c.id)
  BY <1>1, <1>2, <1>3, <1>4 DEF TypeAfter, Adds, Drops
<1>5. CASE ~Invalid(w, c.id)
  <2>1. CASE c.kind \in {"Add", "Set", "AddModified"}
    <3>1. TypeAfter(w, c, before) = before \cup {c.id}
      BY <1>5, <2>1 DEF TypeAfter
    <3> QED
      BY <2>1, <3>1 DEF Adds, Drops
  <2>2. CASE c.kind = "Remove"
    <3>1. TypeAfter(w, c, before) = before \ {c.id}
      BY <1>5, <2>2 DEF TypeAfter
    <3> QED
      BY <2>2, <3>1 DEF Adds, Drops
  <2>3. CASE c.kind = "Clear"
    <3>1. TypeAfter(w, c, before) = {}
      BY <1>5, <2>3 DEF TypeAfter
    <3> QED
      BY <2>3, <3>1 DEF Adds, Drops
  <2>4. CASE c.kind \notin {"Add", "Set", "AddModified", "Remove", "Clear"}
    <3>1. TypeAfter(w, c, before) = before
      BY <1>5, <2>4 DEF TypeAfter
    <3> QED
      BY <2>4, <3>1 DEF Adds, Drops
  <2> QED
    BY <2>1, <2>2, <2>3, <2>4
<1> QED
  BY <1>4, <1>5

\* The type that a batch commits is what its commands leave the entity with.
LEMMA BatchedTypeIs ==
    ASSUME NEW w, WorldOK(w), NEW q \in Seq(CommandSet), NEW i \in 1 .. Len(q),
           ~BatchDeletes(w, q, i), \A k \in Chain(q, i) : q[k].kind = "Clear" => q[k].id \notin Pairs,
           NEW x \in AllIds, Lasts(x, w) \/ x \in PolicyPairs
    PROVE  x \in BatchedType(w, q, i) <=>
              \/ x \in w.has[q[i].entity.id] /\ \A k \in Chain(q, i) : ~Drops(q[k], x)
              \/ \E l \in Chain(q, i) :
                    Adds(q[l], x) /\ \A k \in Chain(q, i) : k > l => ~Drops(q[k], x)
<1> DEFINE base == w.has[q[i].entity.id]  L == Len(q) + 1  chain == Chain(q, i)
           type == BatchTypes(w, q, i)
           Before(j) == \/ x \in base /\ \A k \in chain : k < j => ~Drops(q[k], x)
                        \/ \E l \in chain :
                              l < j /\ Adds(q[l], x) /\ \A k \in chain : l < k /\ k < j => ~Drops(q[k], x)
<1>1. base \subseteq SoundIds(w)
  BY BatchWalk
<1>2. L \in Nat /\ i \in Nat /\ i <= L
  OBVIOUS
<1>6. type[i] = base /\ \A j \in i + 1 .. L : type[j] = TypeAt(w, q, i, j, type[j - 1])
  BY BatchWalk
<1> HIDE DEF base, type, L
<1>7. chain \subseteq i .. L - 1 /\ \A k \in chain : k \in 1 .. Len(q) /\ k \in Nat
  BY <1>2 DEF Chain, L
<1>8. \A k \in chain : \A before :
         x \in TypeAfter(w, q[k], before) <=> (x \in before /\ ~Drops(q[k], x)) \/ Adds(q[k], x)
  <2> SUFFICES ASSUME NEW k \in chain, NEW before
               PROVE  x \in TypeAfter(w, q[k], before) <=> (x \in before /\ ~Drops(q[k], x)) \/ Adds(q[k], x)
    OBVIOUS
  <2> DEFINE c == q[k]
  <2>1. /\ c \in CommandSet /\ (c.kind = "Clear" => c.id \notin Pairs)
        /\ ~(c.kind \in {"Add", "Remove"} /\ DeletesEntity(w, c.id))
    BY <1>7 DEF BatchDeletes
  <2> HIDE DEF c, chain
  <2>2. x \in TypeAfter(w, c, before) <=> (x \in before /\ ~Drops(c, x)) \/ Adds(c, x)
    BY <2>1, TypeAfterIs
  <2> QED
    BY <2>2 DEF c
<1>9. \A j \in i + 1 .. L : type[j] = IF j - 1 \in chain THEN TypeAfter(w, q[j - 1], type[j - 1]) ELSE type[j - 1]
  BY <1>6 DEF TypeAt
<1> HIDE DEF chain
<1>10. x \in type[i] <=> Before(i)
  BY <1>2, <1>6, <1>7
<1>11. ASSUME NEW j \in i + 1 .. L, x \in type[j - 1] <=> Before(j - 1)
       PROVE  x \in type[j] <=> Before(j)
  <2> DEFINE p == j - 1
  <2>1. p \in Nat /\ p >= i /\ j = p + 1
    BY <1>2
  <2> HIDE DEF p
  <2>2. \A k \in chain : /\ k < j <=> k < p \/ k = p
                         /\ ~(k < p /\ k = p)
    BY <1>7, <2>1
  <2>3. x \in type[p] <=> Before(p)
    BY <1>11 DEF p
  <2>4. type[j] = IF p \in chain THEN TypeAfter(w, q[p], type[p]) ELSE type[p]
    BY <1>9 DEF p
  <2>5. CASE p \notin chain
    <3>1. \A k \in chain : k < j <=> k < p
      BY <2>2, <2>5
    <3> QED
      BY <2>3, <2>4, <2>5, <3>1
  <2>6. CASE p \in chain
    <3>1. x \in type[j] <=> (Before(p) /\ ~Drops(q[p], x)) \/ Adds(q[p], x)
      BY <1>8, <2>3, <2>4, <2>6
    <3>2. p < j /\ \A k \in chain : ~(p < k /\ k < j)
      <4>1. \A k \in Nat : ~(p < k /\ k < p + 1)
        BY <2>1
      <4>2. \A k \in chain : k \in Nat
        BY <1>7
      <4>3. p < p + 1
        BY <2>1
      <4> QED
        BY <2>1, <4>1, <4>2, <4>3
    <3>3. Before(j) <=> (Before(p) /\ ~Drops(q[p], x)) \/ Adds(q[p], x)
      <4> HIDE DEF Drops, Adds
      <4> QED
        BY <2>2, <2>6, <3>2
    <3> QED
      BY <3>1, <3>3
  <2> QED
    BY <2>5, <2>6
<1>12. x \in type[L] <=> Before(L)
  <2> DEFINE S == {n \in i .. L : ~(x \in type[n] <=> Before(n))}
  <2> SUFFICES ASSUME S # {} PROVE FALSE
    BY <1>2
  <2>1. S \in SUBSET Nat
    BY <1>2
  <2> HIDE DEF S
  <2>2. PICK n \in S : \A m \in S : n <= m
    BY <2>1, SmallestOf
  <2> HIDE DEF Before
  <2>3. n \in i .. L /\ ~(x \in type[n] <=> Before(n)) /\ n # i
    BY <1>10, <2>2 DEF S
  <2>4. n \in i + 1 .. L /\ n - 1 \in i .. L
    BY <1>2, <2>3
  <2>5. n - 1 \notin S
    BY <1>2, <2>2, <2>3
  <2>6. x \in type[n - 1] <=> Before(n - 1)
    BY <2>4, <2>5 DEF S
  <2> QED
    BY <1>11, <2>3, <2>4, <2>6
<1>13. \A k \in chain : k < L
  BY <1>2, <1>7
<1>14. Before(L) <=> \/ x \in base /\ \A k \in chain : ~Drops(q[k], x)
                     \/ \E l \in chain : Adds(q[l], x) /\ \A k \in chain : k > l => ~Drops(q[k], x)
  <2>1. \A l, k \in chain : k > l <=> l < k
    BY <1>7
  <2> QED
    BY <1>13, <2>1
<1>15. BatchedType(w, q, i) = type[L]
  BY DEF BatchedType, type, L
<1> QED
  BY <1>12, <1>14, <1>15 DEF base, chain

-----------------------------------------------------------------------------
(* Batches and their outcome                                                 *)

\* What an entity does not have has no value.
ValuesOwned(w) == \A id \in Ids : \A c \in Components : c \notin w.has[id] => w.value[id][c] = Default

\* Commands that have been done, or that the flush does not do.
Over == {"Skip", "Modified", "Delete"}

\* Queues that differ in the kinds of a chain's commands only.
SameLinks(q, r) ==
    /\ r \in Seq(CommandSet) /\ Len(r) = Len(q)
    /\ \A j \in 1 .. Len(q) :
          /\ r[j].entity = q[j].entity /\ r[j].id = q[j].id
          /\ r[j].value = q[j].value /\ r[j].next = q[j].next
          /\ r[j].kind = "Delete" <=> q[j].kind = "Delete"

\* They have the same links, and the same chains.
LEMMA LinksKept ==
    ASSUME NEW q \in Seq(CommandSet), NEW r, SameLinks(q, r)
    PROVE  /\ \A j \in 1 .. Len(q) : Same(r, j) = Same(q, j) /\ (LinkAt(r, j) <=> LinkAt(q, j))
           /\ \A i \in 1 .. Len(q) : UpToDelete(r, i) = UpToDelete(q, i)
<1>1. \A j \in 1 .. Len(q) : Same(r, j) = Same(q, j)
  BY DEF Same, SameLinks
<1>2. \A j \in 1 .. Len(q) : LinkAt(r, j) <=> LinkAt(q, j)
  BY <1>1 DEF LinkAt, SameLinks
<1>3. ASSUME NEW i \in 1 .. Len(q) PROVE UpToDelete(r, i) = UpToDelete(q, i)
  <2>1. \A j \in i .. Len(q) : j \in 1 .. Len(q)
    OBVIOUS
  <2>2. \A j \in Same(q, i) : j \in 1 .. Len(q)
    BY DEF Same
  <2> QED
    BY <1>1, <2>1, <2>2 DEF UpToDelete, SameLinks
<1> QED
  BY <1>1, <1>2, <1>3

\* Before its commit, a batch's commands are as they are queued; then they have
\* been done, except for values.
LEMMA BatchedMarks ==
    ASSUME NEW q \in Seq(CommandSet), NEW i, NEW r, r = Batched(q, i)
    PROVE  /\ SameLinks(q, r)
           /\ \A j \in 1 .. Len(q) :
                 IF j \in Chain(q, i)
                 THEN r[j].kind \in Over \cup {"Set"} /\ (r[j].kind = "Set" <=> q[j].kind = "Set")
                 ELSE r[j] = q[j]
<1> DEFINE Mark(j) == IF j \in Chain(q, i) THEN [q[j] EXCEPT !.kind = BatchedKind(q[j])] ELSE q[j]
<1>1. r \in Seq(CommandSet) /\ Len(r) = Len(q)
  BY BatchedFacts DEF SameCommands
<1>2. \A j \in 1 .. Len(q) : r[j] = Mark(j)
  BY DEF Batched
<1>3. ASSUME NEW j \in 1 .. Len(q)
      PROVE  /\ Mark(j).entity = q[j].entity /\ Mark(j).id = q[j].id
             /\ Mark(j).value = q[j].value /\ Mark(j).next = q[j].next
             /\ Mark(j).kind = "Delete" <=> q[j].kind = "Delete"
             /\ IF j \in Chain(q, i)
                THEN Mark(j).kind \in Over \cup {"Set"} /\ (Mark(j).kind = "Set" <=> q[j].kind = "Set")
                ELSE Mark(j) = q[j]
  <2> DEFINE c == q[j]  k == BatchedKind(c)
  <2>1. c \in CommandSet
    OBVIOUS
  <2>2. /\ k \in Over \cup {"Set"}
        /\ k = "Set" <=> c.kind = "Set"
        /\ k = "Delete" <=> c.kind = "Delete"
    BY <2>1 DEF BatchedKind, CommandSet, Kinds, Over
  <2>3. Mark(j) = IF j \in Chain(q, i) THEN [c EXCEPT !.kind = k] ELSE c
    OBVIOUS
  <2>4. c = q[j]
    OBVIOUS
  <2> HIDE DEF c, k, Mark
  <2>5. /\ [c EXCEPT !.kind = k].entity = c.entity /\ [c EXCEPT !.kind = k].id = c.id
        /\ [c EXCEPT !.kind = k].value = c.value /\ [c EXCEPT !.kind = k].next = c.next
        /\ [c EXCEPT !.kind = k].kind = k
    BY <2>1 DEF CommandSet
  <2>6. CASE j \in Chain(q, i)
    BY <2>2, <2>3, <2>4, <2>5, <2>6
  <2>7. CASE j \notin Chain(q, i)
    BY <2>3, <2>4, <2>7
  <2> QED
    BY <2>6, <2>7
<1> HIDE DEF Mark
<1> QED
  BY <1>1, <1>2, <1>3 DEF SameLinks

LEMMA BatchedSetsMarks ==
    ASSUME NEW w, NEW q \in Seq(CommandSet), NEW i, NEW r, r = BatchedSets(w, q, i)
    PROVE  /\ SameLinks(q, r)
           /\ \A j \in 1 .. Len(q) :
                 IF j \in Chain(q, i) /\ q[j].kind = "Set" THEN r[j].kind \in Over ELSE r[j] = q[j]
<1> DEFINE Mark(j) == IF j \in Chain(q, i) /\ q[j].kind = "Set"
                      THEN [q[j] EXCEPT !.kind = IF q[j].id \in w.has[q[i].entity.id]
                                                 THEN "Modified" ELSE "Skip"]
                      ELSE q[j]
<1>1. r \in Seq(CommandSet) /\ Len(r) = Len(q)
  BY BatchedSetsFacts DEF SameCommands
<1>2. \A j \in 1 .. Len(q) : r[j] = Mark(j)
  BY DEF BatchedSets
<1>3. ASSUME NEW j \in 1 .. Len(q)
      PROVE  /\ Mark(j).entity = q[j].entity /\ Mark(j).id = q[j].id
             /\ Mark(j).value = q[j].value /\ Mark(j).next = q[j].next
             /\ Mark(j).kind = "Delete" <=> q[j].kind = "Delete"
             /\ IF j \in Chain(q, i) /\ q[j].kind = "Set" THEN Mark(j).kind \in Over ELSE Mark(j) = q[j]
  <2> DEFINE c == q[j]  k == IF q[j].id \in w.has[q[i].entity.id] THEN "Modified" ELSE "Skip"
  <2>1. c \in CommandSet
    OBVIOUS
  <2>2. k \in {"Modified", "Skip"}
    OBVIOUS
  <2>3. Mark(j) = IF j \in Chain(q, i) /\ c.kind = "Set" THEN [c EXCEPT !.kind = k] ELSE c
    OBVIOUS
  <2>4. c = q[j]
    OBVIOUS
  <2> HIDE DEF c, k, Mark
  <2>5. /\ [c EXCEPT !.kind = k].entity = c.entity /\ [c EXCEPT !.kind = k].id = c.id
        /\ [c EXCEPT !.kind = k].value = c.value /\ [c EXCEPT !.kind = k].next = c.next
        /\ [c EXCEPT !.kind = k].kind = k
    BY <2>1 DEF CommandSet
  <2>6. CASE j \in Chain(q, i) /\ c.kind = "Set"
    BY <2>2, <2>3, <2>4, <2>5, <2>6 DEF Over
  <2>7. CASE ~(j \in Chain(q, i) /\ c.kind = "Set")
    BY <2>3, <2>4, <2>7
  <2> QED
    BY <2>6, <2>7
<1> HIDE DEF Mark
<1> QED
  BY <1>1, <1>2, <1>3 DEF SameLinks

\* What is left when the values of a batch are in place.
ValuesDone(w, q, i, v) ==
    LET e == q[i].entity.id
    IN  /\ v.alive = w.alive /\ v.gen = w.gen /\ v.has = w.has
        /\ \A id \in Ids \ {e} : v.value[id] = w.value[id]
        /\ \A c \in Components :
              LET sets == {j \in Chain(q, i) : q[j].kind = "Set" /\ q[j].id = c}
              IN  IF c \in w.has[e] /\ sets # {}
                  THEN \E j \in sets : v.value[e][c] = q[j].value /\ \A k \in sets : k <= j
                  ELSE v.value[e][c] = w.value[e][c]

LEMMA BatchedValuesShape ==
    ASSUME NEW w, WorldOK(w), NEW q \in Seq(CommandSet), NEW i \in 1 .. Len(q)
    PROVE  ValuesDone(w, q, i, BatchedValues(w, q, i))
<1> DEFINE v == BatchedValues(w, q, i)
           e == q[i].entity.id
           Sets(c) == {j \in Chain(q, i) : q[j].kind = "Set" /\ q[j].id = c}
           Last(c) == CHOOSE j \in Sets(c) : \A k \in Sets(c) : k <= j
           Value(c) == IF c \in w.has[e] /\ Sets(c) # {} THEN q[Last(c)].value ELSE w.value[e][c]
           value == [w.value EXCEPT ![e] = [c \in Components |-> Value(c)]]
<1>1. e \in Ids
  BY DEF CommandSet, Handles
<1>2. Chain(q, i) \subseteq i .. Len(q)
  BY DEF Chain
<1>3. ASSUME NEW c, Sets(c) # {} PROVE Last(c) \in Sets(c) /\ \A k \in Sets(c) : k <= Last(c)
  <2>1. Sets(c) \in SUBSET (i .. Len(q)) /\ i \in Nat /\ Len(q) \in Nat
    BY <1>2
  <2> HIDE DEF Sets
  <2>2. \E j \in Sets(c) : \A k \in Sets(c) : k <= j
    BY <1>3, <2>1, LargestOf, Zenon
  <2> QED
    BY <2>2
<1>4. v = [w EXCEPT !.value = value]
  BY WorldFacts DEF BatchedValues, WorldSet
<1> HIDE DEF Last, Value, v
<1>5. /\ v.alive = w.alive /\ v.gen = w.gen /\ v.has = w.has /\ v.value = value
  BY <1>4, WorldFacts DEF WorldSet
<1>6. /\ \A id \in Ids \ {e} : v.value[id] = w.value[id]
      /\ \A c \in Components : v.value[e][c] = Value(c)
  BY <1>1, <1>5, WorldFacts
<1>7. ASSUME NEW c \in Components
      PROVE  IF c \in w.has[e] /\ Sets(c) # {}
             THEN \E j \in Sets(c) : v.value[e][c] = q[j].value /\ \A k \in Sets(c) : k <= j
             ELSE v.value[e][c] = w.value[e][c]
  <2> HIDE DEF Sets
  <2> QED
    BY <1>3, <1>6 DEF Value
<1> QED
  BY <1>5, <1>6, <1>7 DEF ValuesDone, v

\* What is left when the type of a batch is committed and its values are in place.
BatchDone(w, q, i, v, r) ==
    LET e == q[i].entity.id
    IN  /\ v.alive = w.alive /\ v.gen = w.gen /\ v.has[e] = BatchedType(w, q, i)
        /\ \A id \in Ids \ {e} : v.has[id] = w.has[id] /\ v.value[id] = w.value[id]
        /\ \A c \in Components :
              LET sets == {j \in UpToDelete(q, i) : q[j].kind = "Set" /\ q[j].id = c}
              IN  IF c \in v.has[e] /\ sets # {}
                  THEN \E j \in sets : v.value[e][c] = q[j].value /\ \A k \in sets : k <= j
                  ELSE v.value[e][c] = IF c \in v.has[e] /\ c \in w.has[e]
                                       THEN w.value[e][c] ELSE Default
        /\ SameLinks(q, r)
        /\ \A j \in 1 .. Len(q) : IF j \in UpToDelete(q, i) THEN r[j].kind \in Over ELSE r[j] = q[j]

LEMMA BatchShape ==
    ASSUME NEW w, WorldOK(w), NEW q \in Seq(CommandSet), NEW i \in 1 .. Len(q),
           Alive(w, q[i].entity), \A j \in Same(q, i) : LinkAt(q, j),
           NEW u, u = Commit(w, q[i].entity, BatchedType(w, q, i)),
           NEW t, t = Batched(q, i),
           NEW v, v = BatchedValues(u, t, i), NEW r, r = BatchedSets(u, t, i)
    PROVE  WorldOK(u) /\ SameLinks(q, t) /\ BatchDone(w, q, i, v, r)
<1> DEFINE e == q[i].entity.id
           T == BatchedType(w, q, i)  C == UpToDelete(q, i)
           Sets(c) == {j \in C : q[j].kind = "Set" /\ q[j].id = c}
<1>1. q[i] \in CommandSet /\ q[i].entity \in Handles /\ e \in Ids
  BY DEF CommandSet, Handles
<1>2. T \subseteq SoundIds(w)
  BY BatchedTypeOK
<1> HIDE DEF T
<1>3. WorldOK(u)
  BY <1>1, <1>2, CommitOK DEF T
<1>4. /\ u.alive = w.alive /\ u.gen = w.gen /\ u.has[e] = T
      /\ \A id \in Ids \ {e} : u.has[id] = w.has[id] /\ u.value[id] = w.value[id]
      /\ \A c \in Components : u.value[e][c] = IF c \in T \cap w.has[e] THEN w.value[e][c] ELSE Default
  BY <1>1, CommitShape DEF T
<1>5. Chain(q, i) = C
  BY ChainIs
<1>6. /\ SameLinks(q, t)
      /\ \A j \in 1 .. Len(q) :
            IF j \in C
            THEN t[j].kind \in Over \cup {"Set"} /\ (t[j].kind = "Set" <=> q[j].kind = "Set")
            ELSE t[j] = q[j]
  BY <1>5, BatchedMarks
<1>7. /\ t \in Seq(CommandSet) /\ Len(t) = Len(q) /\ i \in 1 .. Len(t) /\ t[i].entity = q[i].entity
      /\ Same(t, i) = Same(q, i) /\ UpToDelete(t, i) = C
  BY <1>6, LinksKept DEF SameLinks
<1>8. Chain(t, i) = C
  <2>1. \A j \in Same(t, i) : LinkAt(t, j)
    <3>1. \A j \in Same(q, i) : j \in 1 .. Len(q)
      BY DEF Same
    <3> QED
      BY <1>6, <1>7, <3>1, LinksKept
  <2> QED
    BY <1>7, <2>1, ChainIs
<1> HIDE DEF C
<1>9. /\ SameLinks(t, r)
      /\ \A j \in 1 .. Len(q) : IF j \in C /\ t[j].kind = "Set" THEN r[j].kind \in Over ELSE r[j] = t[j]
  BY <1>7, <1>8, BatchedSetsMarks
<1>10. SameLinks(q, r)
  BY <1>6, <1>9 DEF SameLinks
<1>11. \A j \in 1 .. Len(q) : IF j \in C THEN r[j].kind \in Over ELSE r[j] = q[j]
  BY <1>6, <1>9
<1>12. C \subseteq 1 .. Len(q)
  BY DEF C, UpToDelete
<1>13. \A c : Sets(c) = {j \in C : t[j].kind = "Set" /\ t[j].id = c}
  BY <1>6, <1>12, Zenon DEF SameLinks
<1>14. /\ v.alive = u.alive /\ v.gen = u.gen /\ v.has = u.has
       /\ \A id \in Ids \ {e} : v.value[id] = u.value[id]
       /\ \A c \in Components :
             IF c \in u.has[e] /\ Sets(c) # {}
             THEN \E j \in Sets(c) : v.value[e][c] = t[j].value /\ \A k \in Sets(c) : k <= j
             ELSE v.value[e][c] = u.value[e][c]
  <2>1. t[i].entity.id = e
    BY <1>7
  <2>2. /\ v.alive = u.alive /\ v.gen = u.gen /\ v.has = u.has
        /\ \A id \in Ids \ {e} : v.value[id] = u.value[id]
        /\ \A c \in Components :
              LET sets == {j \in Chain(t, i) : t[j].kind = "Set" /\ t[j].id = c}
              IN  IF c \in u.has[e] /\ sets # {}
                  THEN \E j \in sets : v.value[e][c] = t[j].value /\ \A k \in sets : k <= j
                  ELSE v.value[e][c] = u.value[e][c]
    <3>1. ValuesDone(u, t, i, v)
      BY <1>3, <1>7, BatchedValuesShape
    <3> HIDE DEF e
    <3> QED
      BY <2>1, <3>1, Zenon DEF ValuesDone
  <2>3. \A c : {j \in Chain(t, i) : t[j].kind = "Set" /\ t[j].id = c} = Sets(c)
    BY <1>8, <1>13
  <2> HIDE DEF Sets
  <2> QED
    BY <2>2, <2>3
<1>15. \A j \in C : t[j].value = q[j].value
  BY <1>6, <1>12 DEF SameLinks
<1>16. ASSUME NEW c \in Components
       PROVE  IF c \in v.has[e] /\ Sets(c) # {}
              THEN \E j \in Sets(c) : v.value[e][c] = q[j].value /\ \A k \in Sets(c) : k <= j
              ELSE v.value[e][c] = IF c \in v.has[e] /\ c \in w.has[e] THEN w.value[e][c] ELSE Default
  <2>1. \A j \in Sets(c) : t[j].value = q[j].value
    BY <1>15
  <2> HIDE DEF Sets, e
  <2>2. CASE c \in v.has[e] /\ Sets(c) # {}
    BY <1>14, <2>1, <2>2, Zenon
  <2>3. CASE ~(c \in v.has[e] /\ Sets(c) # {})
    <3>1. v.value[e][c] = u.value[e][c] /\ (c \in T \cap w.has[e] <=> c \in v.has[e] /\ c \in w.has[e])
      BY <1>4, <1>14, <2>3, Zenon
    <3> QED
      BY <1>4, <2>3, <3>1, Zenon
  <2> QED
    BY <2>2, <2>3, Zenon
<1>17. /\ v.alive = w.alive /\ v.gen = w.gen /\ v.has[e] = T
       /\ \A id \in Ids \ {e} : v.has[id] = w.has[id] /\ v.value[id] = w.value[id]
  BY <1>4, <1>14
<1> QED
  BY <1>3, <1>6, <1>10, <1>11, <1>16, <1>17 DEF C, T, BatchDone

\* A batch that deletes nothing leads to what its commands do.
LEMMA BatchLeads ==
    ASSUME NEW w, WorldOK(w), ValuesOwned(w), NEW q \in Seq(CommandSet), NEW i \in 1 .. Len(q),
           Alive(w, q[i].entity), \A j \in Same(q, i) : LinkAt(q, j),
           \A j \in 1 .. Len(q) : q[j].kind = "Clear" => q[j].id \notin Pairs,
           ~BatchDeletes(w, q, i),
           NEW v, NEW r, BatchDone(w, q, i, v, r),
           NEW z, WorldOK(z), Leads(w, q, i, z)
    PROVE  Leads(v, r, i, z)
<1> DEFINE T == BatchedType(w, q, i)  C == UpToDelete(q, i)  e == q[i].entity.id
           Sets(c) == {j \in C : q[j].kind = "Set" /\ q[j].id = c}
           own == Own(w, q, i, e)
<1>1. /\ i \in Nat /\ i # 0 /\ Len(q) \in Nat /\ C \subseteq 1 .. Len(q)
      /\ e \in Ids /\ e \in w.alive /\ q[i].entity.gen = w.gen[e]
  BY DEF UpToDelete, CommandSet, Handles, Alive
<1>2. /\ v.alive = w.alive /\ v.gen = w.gen /\ v.has[e] = T
      /\ \A id \in Ids \ {e} : v.has[id] = w.has[id] /\ v.value[id] = w.value[id]
      /\ \A c \in Components :
            IF c \in v.has[e] /\ Sets(c) # {}
            THEN \E j \in Sets(c) : v.value[e][c] = q[j].value /\ \A k \in Sets(c) : k <= j
            ELSE v.value[e][c] = IF c \in v.has[e] /\ c \in w.has[e] THEN w.value[e][c] ELSE Default
      /\ SameLinks(q, r)
      /\ \A j \in 1 .. Len(q) : IF j \in C THEN r[j].kind \in Over ELSE r[j] = q[j]
  BY DEF BatchDone
<1>3. \A id : Own(v, r, i, id) = Own(w, q, i, id)
  <2>1. \A j \in i .. Len(q) : j \in 1 .. Len(q)
    BY <1>1
  <2>2. v.gen = w.gen /\ Len(r) = Len(q) /\ \A j \in 1 .. Len(q) : r[j].entity = q[j].entity
    BY <1>2 DEF SameLinks
  <2> QED
    BY <2>1, <2>2 DEF Own
<1>4. \A id : \A j \in Own(w, q, i, id) :
         j \in 1 .. Len(q) /\ q[j].entity = [id |-> id, gen |-> w.gen[id]]
  BY <1>1, OwnFacts
<1>5. \A id : Ends(w, q, i, id) <=> Ends(v, r, i, id)
  <2>1. \A j \in 1 .. Len(q) : r[j].kind = "Delete" <=> q[j].kind = "Delete"
    BY <1>2 DEF SameLinks
  <2>2. \A id : \A j \in Own(w, q, i, id) : r[j].kind = "Delete" <=> q[j].kind = "Delete"
    BY <1>4, <2>1, Zenon
  <2> QED
    BY <1>3, <2>2 DEF Ends
<1>6. \A id \in w.alive \ {e} : \A j \in Own(w, q, i, id) : r[j] = q[j]
  <2>1. \A j \in C : q[j].entity.id = e
    BY DEF UpToDelete
  <2> HIDE DEF C, e
  <2>2. \A id \in w.alive \ {e} : \A j \in Own(w, q, i, id) : j \notin C
    BY <2>1 DEF Own
  <2> QED
    BY <1>2, <1>4, <2>2, Zenon
<1>7. ~Ends(w, q, i, e) => own = C
  <2> SUFFICES ASSUME ~Ends(w, q, i, e) PROVE own = C
    OBVIOUS
  <2>1. q[i].entity = [id |-> e, gen |-> w.gen[e]]
    BY <1>1 DEF CommandSet, Handles
  <2>2. \A j : j \in own <=> j \in i .. Len(q) /\ q[j].entity = q[i].entity
    <3>1. \A j \in own : j \in i .. Len(q) /\ q[j].entity = q[i].entity
      BY <1>4, <2>1 DEF Own
    <3> QED
      BY <1>1, <3>1 DEF Own
  <2>3. \A j \in own : q[j].kind # "Delete"
    BY DEF Ends
  <2>4. \A k \in Same(q, i) : i <= k => k \in own
    BY <1>1, <2>2 DEF Same
  <2> HIDE DEF own, e
  <2> QED
    BY <2>2, <2>3, <2>4 DEF UpToDelete
<1>8. \A j \in C : \A x : ~Adds(r[j], x) /\ ~Drops(r[j], x) /\ r[j].kind # "Set"
  BY <1>1, <1>2 DEF Adds, Drops, Over
<1>9. Own(v, r, i, e) = own
  BY <1>3
<1>10. ASSUME ~Ends(w, q, i, e), NEW x \in AllIds, Lasts(x, w) \/ x \in PolicyPairs
       PROVE  (InEnd(w, q, i, e, x) <=> x \in T) /\ (InEnd(v, r, i, e, x) <=> x \in T)
  <2>1. own = C
    BY <1>7, <1>10
  <2>2. InEnd(v, r, i, e, x) <=> x \in T
    <3> HIDE DEF own, C, T, e
    <3> QED
      BY <1>2, <1>8, <1>9, <2>1, Zenon DEF InEnd
  <2>3. Chain(q, i) = C
    BY ChainIs
  <2>4. x \in T <=>
              \/ x \in w.has[e] /\ \A k \in C : ~Drops(q[k], x)
              \/ \E l \in C : Adds(q[l], x) /\ \A k \in C : k > l => ~Drops(q[k], x)
    <3>1. \A k \in C : q[k].kind = "Clear" => q[k].id \notin Pairs
      BY <1>1
    <3> HIDE DEF C
    <3> QED
      BY <1>10, <2>3, <3>1, BatchedTypeIs
  <2>5. InEnd(w, q, i, e, x) <=>
              \/ x \in w.has[e] /\ \A k \in C : ~Drops(q[k], x)
              \/ \E l \in C : Adds(q[l], x) /\ \A k \in C : k > l => ~Drops(q[k], x)
    <3> HIDE DEF C, e
    <3> QED
      BY <2>1 DEF InEnd, own
  <2> QED
    BY <2>2, <2>4, <2>5
<1>11. Untangled(w, q, i) => Untangled(v, r, i)
  <2>1. \A j \in i .. Len(q) : j \in 1 .. Len(q)
    BY <1>1
  <2>2. Len(r) = Len(q) /\ \A j \in 1 .. Len(q) : r[j].kind = "Delete" <=> q[j].kind = "Delete"
    BY <1>2 DEF SameLinks
  <2>3. \A j \in 1 .. Len(q) : Takes(r[j]) \/ r[j].kind \in {"Add", "Remove"} => r[j] = q[j]
    BY <1>2 DEF Takes, Over
  <2>4. \A x : DeletesEntity(v, x) <=> DeletesEntity(w, x)
    BY <1>2 DEF DeletesEntity, Invalid
  <2> QED
    BY <2>1, <2>2, <2>3, <2>4 DEF Untangled
<1>12. SameEnd(w, q, i, v, r, i)
  <2>1. v.alive = w.alive /\ v.gen = w.gen
    BY <1>2
  <2>2. \A id \in w.alive \ {e} :
           /\ v.has[id] = w.has[id] /\ Own(v, r, i, id) = Own(w, q, i, id)
           /\ \A j \in Own(w, q, i, id) : r[j] = q[j]
    BY <1>2, <1>3, <1>6, WorldFacts, Zenon
  <2>3. e \in w.alive =>
           /\ Ends(w, q, i, e) <=> Ends(v, r, i, e)
           /\ \A x \in AllIds : (Lasts(x, w) \/ x \in PolicyPairs) /\ ~Ends(w, q, i, e) =>
                 (InEnd(w, q, i, e, x) <=> InEnd(v, r, i, e, x))
    BY <1>5, <1>10
  <2> HIDE DEF e, own, C, T, Sets
  <2> QED
    BY <1>11, <2>1, <2>2, <2>3, SameIfOneIs, Zenon
<1>13. ASSUME NEW id \in v.alive, ~Ends(v, r, i, id), NEW c \in Components, InEnd(w, q, i, id, c),
              NEW y, IsEndValue(v, r, i, id, c, y)
       PROVE  IsEndValue(w, q, i, id, c, y)
  <2>1. CASE id # e
    <3>1. id \in w.alive \ {e} /\ id \in Ids \ {e}
      BY <1>2, <2>1, WorldFacts
    <3>2. \A j \in Own(w, q, i, id) : r[j] = q[j]
      BY <1>6, <3>1
    <3>3. SetsOf(v, r, i, id, c) = SetsOf(w, q, i, id, c)
      BY <1>3, <3>2 DEF SetsOf
    <3>4. v.value[id] = w.value[id]
      BY <1>2, <3>1
    <3>5. \A j \in SetsOf(w, q, i, id, c) : r[j] = q[j]
      BY <3>2 DEF SetsOf
    <3> HIDE DEF e
    <3> QED
      BY <1>13, <3>3, <3>4, <3>5 DEF IsEndValue
  <2>2. CASE id = e
    <3>1. own = C /\ ~Ends(w, q, i, e)
      BY <1>5, <1>7, <1>13, <2>2
    <3>2. c \in AllIds /\ Lasts(c, w)
      BY IdsAssumption DEF AllIds, Lasts
    <3>3. c \in v.has[e]
      BY <1>2, <1>10, <1>13, <2>2, <3>1, <3>2
    <3>4. SetsOf(w, q, i, e, c) = Sets(c)
      BY <3>1 DEF SetsOf
    <3>5. SetsOf(v, r, i, e, c) = {}
      <4> HIDE DEF own, C, e
      <4> QED
        BY <1>8, <1>9, <3>1 DEF SetsOf
    <3>6. y = v.value[e][c]
      <4> HIDE DEF e
      <4> QED
        BY <1>13, <2>2, <3>5 DEF IsEndValue
    <3>7. c \notin w.has[e] => w.value[e][c] = Default
      BY <1>1 DEF ValuesOwned
    <3>8. IF Sets(c) # {}
          THEN \E j \in Sets(c) : v.value[e][c] = q[j].value /\ \A k \in Sets(c) : k <= j
          ELSE v.value[e][c] = w.value[e][c]
      <4> HIDE DEF Sets, e
      <4> QED
        BY <1>2, <3>3, <3>7
    <3> HIDE DEF Sets, e
    <3> QED
      BY <2>2, <3>4, <3>6, <3>8 DEF IsEndValue
  <2> QED
    BY <2>1, <2>2
<1> QED
  BY <1>12, <1>13, LeadsSame

-----------------------------------------------------------------------------
(* The flush of a queue                                                      *)

\* A command of command j's entity was done before command n, or is n in a batch.
Touched(q, j, n, phase) == \E k \in Same(q, j) : k < n \/ (k = n /\ phase # "visit")

\* Then what is left of j is nothing that changes a type or a value, or the entity
\* is deleted before.
Passed(w, q, n, phase) ==
    \A j \in n .. Len(q) : Alive(w, q[j].entity) /\ Touched(q, j, n, phase) =>
        q[j].kind \in Over \/ \E k \in Same(q, j) : n <= k /\ k < j /\ q[k].kind = "Delete"

\* A flush that is at command n, in the world w, leads to z.
FlushOK(w, q, n, phase, z) ==
    /\ Leads(w, q, n, z)
    /\ \A j \in 1 .. Len(q) : /\ Alive(w, q[j].entity) => LinkAt(q, j)
                              /\ q[j].kind = "Clear" => q[j].id \notin Pairs
    /\ Passed(w, q, n, phase)

LEMMA SameFacts ==
    ASSUME NEW q \in Seq(CommandSet), NEW j \in 1 .. Len(q)
    PROVE  /\ j \in Same(q, j) /\ Same(q, j) \subseteq 1 .. Len(q)
           /\ \A k \in Same(q, j) : q[k].entity = q[j].entity /\ Same(q, k) = Same(q, j)
  BY DEF Same

\* A step of the flush after which what lives lived before, with the generation it
\* had, leaves the links of commands of living entities.
LEMMA AliveBefore ==
    ASSUME NEW w, NEW v, v.alive \subseteq w.alive, \A id \in v.alive : v.gen[id] = w.gen[id],
           NEW e, Alive(v, e)
    PROVE  Alive(w, e)
  BY DEF Alive

\* The commit of a batch.
LEMMA BatchFlushes ==
    ASSUME NEW w, WorldOK(w), ValuesOwned(w), NEW q \in Seq(CommandSet), NEW i \in 1 .. Len(q),
           NEW z, WorldOK(z), FlushOK(w, q, i, "visit", z),
           Alive(w, q[i].entity), ~BatchDeletes(w, q, i),
           NEW v, NEW r, BatchDone(w, q, i, v, r)
    PROVE  FlushOK(v, r, i, "set", z)
<1>1. \A j \in Same(q, i) : LinkAt(q, j)
  BY SameFacts DEF FlushOK
<1>2. Leads(v, r, i, z)
  BY <1>1, BatchLeads DEF FlushOK
<1>3. /\ v.alive = w.alive /\ v.gen = w.gen
      /\ r \in Seq(CommandSet) /\ Len(r) = Len(q)
      /\ \A j \in 1 .. Len(q) : r[j].entity = q[j].entity /\ r[j].id = q[j].id
      /\ \A j \in 1 .. Len(q) : r[j].kind = "Delete" <=> q[j].kind = "Delete"
      /\ \A j \in UpToDelete(q, i) : r[j].kind \in Over
      /\ \A j \in 1 .. Len(q) : j \notin UpToDelete(q, i) => r[j] = q[j]
  <2>1. UpToDelete(q, i) \subseteq 1 .. Len(q)
    BY DEF UpToDelete
  <2> QED
    BY <2>1 DEF BatchDone, SameLinks
<1>4. \A j \in 1 .. Len(q) : Same(r, j) = Same(q, j) /\ (LinkAt(r, j) <=> LinkAt(q, j))
  BY LinksKept DEF BatchDone
<1>5. \A e : Alive(v, e) <=> Alive(w, e)
  BY <1>3 DEF Alive
<1>6. ASSUME NEW j \in 1 .. Len(r)
      PROVE  /\ Alive(v, r[j].entity) => LinkAt(r, j)
             /\ r[j].kind = "Clear" => r[j].id \notin Pairs
  <2>1. j \in 1 .. Len(q) /\ r[j].entity = q[j].entity /\ r[j].id = q[j].id
    BY <1>3
  <2>2. Alive(w, q[j].entity) => LinkAt(q, j)
    BY <2>1 DEF FlushOK
  <2>3. r[j].kind = "Clear" => q[j].kind = "Clear"
    BY <1>3, <2>1 DEF Over
  <2>4. q[j].kind = "Clear" => q[j].id \notin Pairs
    BY <2>1 DEF FlushOK
  <2> QED
    BY <1>4, <1>5, <2>1, <2>2, <2>3, <2>4
<1>7. ASSUME NEW j \in i .. Len(r), Alive(v, r[j].entity), Touched(r, j, i, "set")
      PROVE  r[j].kind \in Over \/ \E k \in Same(r, j) : i <= k /\ k < j /\ r[k].kind = "Delete"
  <2>1. j \in 1 .. Len(q) /\ j \in i .. Len(q) /\ Alive(w, q[j].entity) /\ Same(r, j) = Same(q, j)
    <3>1. j \in 1 .. Len(q) /\ j \in i .. Len(q)
      BY <1>3
    <3>2. r[j].entity = q[j].entity
      BY <1>3, <3>1
    <3>3. Alive(w, q[j].entity)
      BY <1>5, <1>7, <3>2
    <3> QED
      BY <1>4, <3>1, <3>3
  <2>2. \A k \in Same(q, j) : r[k].kind = "Delete" <=> q[k].kind = "Delete"
    <3>1. Same(q, j) \subseteq 1 .. Len(q)
      BY DEF Same
    <3> QED
      BY <1>3, <3>1
  <2>3. CASE q[j].entity = q[i].entity
    <3>1. Same(q, i) = Same(q, j)
      BY <2>3 DEF Same
    <3>2. j \in UpToDelete(q, i) \/ \E k \in Same(q, i) : i <= k /\ k < j /\ q[k].kind = "Delete"
      BY <2>1, <2>3 DEF UpToDelete
    <3> QED
      BY <1>3, <2>1, <2>2, <3>1, <3>2
  <2>4. CASE q[j].entity # q[i].entity
    <3>1. j \notin UpToDelete(q, i) /\ i \notin Same(q, j)
      BY <2>4 DEF UpToDelete, Same
    <3>2. Touched(q, j, i, "visit")
      BY <1>7, <2>1, <3>1 DEF Touched
    <3>3. r[j] = q[j]
      BY <1>3, <2>1, <3>1
    <3>4. q[j].kind \in Over \/ \E k \in Same(q, j) : i <= k /\ k < j /\ q[k].kind = "Delete"
      BY <2>1, <3>2 DEF FlushOK, Passed
    <3> QED
      BY <2>1, <2>2, <3>3, <3>4
  <2> QED
    BY <2>3, <2>4
<1> QED
  BY <1>2, <1>6, <1>7 DEF FlushOK, Passed

\* What a batch deletes is deleted by its commands too.
LEMMA DeletedLeads ==
    ASSUME NEW w, WorldOK(w), NEW q \in Seq(CommandSet), NEW i \in 1 .. Len(q),
           Alive(w, q[i].entity), \A j \in Same(q, i) : LinkAt(q, j), BatchDeletes(w, q, i),
           NEW v, v = Delete(w, q[i].entity),
           NEW z, WorldOK(z), Leads(w, q, i, z)
    PROVE  Leads(v, q, i, z)
<1> DEFINE e == q[i].entity
<1>1. /\ e.id \in w.alive /\ e.gen = w.gen[e.id] /\ i \in Nat /\ i # 0 /\ Len(q) \in Nat
      /\ e \in Handles
  BY DEF Alive, CommandSet
<1>2. PICK l \in UpToDelete(q, i) : q[l].kind \in {"Add", "Remove"} /\ DeletesEntity(w, q[l].id)
  BY ChainIs DEF BatchDeletes
<1>3. l \in i .. Len(q) /\ q[l].entity = e
  BY <1>2 DEF UpToDelete
<1>4. Untangled(w, q, i)
  BY DEF Leads
<1>5. \A j \in i .. Len(q) : ~Takes(q[j])
  BY <1>2, <1>3, <1>4 DEF Untangled
<1>6. q[l].id \in PolicyPairs /\ q[l].id.target \notin w.alive
  BY <1>2 DEF DeletesEntity, Invalid, PolicyPairs
<1>7. q[l].kind = "Add"
  BY <1>2, <1>3, <1>5, <1>6 DEF Takes
<1>8. l \in Own(w, q, i, e.id)
  BY <1>1, <1>3 DEF Own
<1>9. \A k \in Own(w, q, i, e.id) : ~Drops(q[k], q[l].id)
  BY <1>5, <1>6 DEF Own, Drops, Takes
<1>10. InEnd(w, q, i, e.id, q[l].id)
  BY <1>7, <1>8, <1>9 DEF InEnd, Adds
<1>11. \A ids \in SUBSET Ids : Safe(ids, w, q, i) => e.id \notin ids
  BY <1>6, <1>10 DEF Safe
<1>12. v = Delete(w, e)
  OBVIOUS
<1> HIDE DEF e
<1>13. i \in {i, i + 1}
  OBVIOUS
<1>14. SameEnd(w, q, i, v, q, i)
  BY <1>1, <1>5, <1>11, <1>12, <1>13, SameIfDoomed
<1>15. \A id \in v.alive : v.gen[id] = w.gen[id] /\ v.value[id] = w.value[id]
  BY <1>1, <1>12, DeleteShape
<1>16. ASSUME NEW id \in v.alive, NEW c, NEW u, IsEndValue(v, q, i, id, c, u)
       PROVE  IsEndValue(w, q, i, id, c, u)
  <2>1. SetsOf(v, q, i, id, c) = SetsOf(w, q, i, id, c)
    BY <1>15 DEF SetsOf, Own
  <2> QED
    BY <1>15, <1>16, <2>1 DEF IsEndValue
<1> QED
  BY <1>14, <1>16, LeadsSame

LEMMA DeletedFlushes ==
    ASSUME NEW w, WorldOK(w), NEW q \in Seq(CommandSet), NEW i \in 1 .. Len(q),
           NEW z, WorldOK(z), FlushOK(w, q, i, "visit", z),
           Alive(w, q[i].entity), BatchDeletes(w, q, i),
           NEW v, v = Delete(w, q[i].entity)
    PROVE  FlushOK(v, q, i, "execute", z)
<1>1. \A j \in Same(q, i) : LinkAt(q, j)
  BY SameFacts DEF FlushOK
<1>2. Leads(v, q, i, z)
  BY <1>1, DeletedLeads DEF FlushOK
<1> DEFINE e == q[i].entity
<1>3. v = Delete(w, e) /\ e.id \in w.alive
  BY DEF Alive
<1>4. ~Alive(v, q[i].entity)
  <2> HIDE DEF e
  <2>1. e.id \notin v.alive
    BY <1>3, DeleteShape, DoomedFacts
  <2> QED
    BY <2>1 DEF Alive, e
<1>5. \A x : Alive(v, x) => Alive(w, x)
  <2> HIDE DEF e
  <2>1. v.alive \subseteq w.alive /\ \A id \in v.alive : v.gen[id] = w.gen[id]
    BY <1>3, DeleteShape
  <2> QED
    BY <2>1 DEF Alive
<1>6. ASSUME NEW j \in i .. Len(q), Alive(v, q[j].entity), Touched(q, j, i, "execute")
      PROVE  q[j].kind \in Over \/ \E k \in Same(q, j) : i <= k /\ k < j /\ q[k].kind = "Delete"
  <2>1. i \notin Same(q, j)
    BY <1>4, <1>6 DEF Same
  <2>2. Touched(q, j, i, "visit")
    BY <1>6, <2>1 DEF Touched
  <2> QED
    BY <1>5, <1>6, <2>2 DEF FlushOK, Passed
<1> QED
  BY <1>2, <1>5, <1>6 DEF FlushOK, Passed

-----------------------------------------------------------------------------
(* The commands of a flush                                                   *)

\* What an entity loses loses its value.
LEMMA WithoutOwned ==
    ASSUME NEW w, WorldOK(w), ValuesOwned(w), NEW ids, NEW targets, NEW v, v = Without(w, ids, targets)
    PROVE  ValuesOwned(v) /\ \A id \in Ids : w.gen[id] <= v.gen[id]
<1>1. /\ \A i \in Ids \cap ids :
            v.gen[i] = w.gen[i] + 1 /\ \A c \in Components : v.value[i][c] = Default
      /\ \A i \in Ids \ ids :
            /\ v.gen[i] = w.gen[i] /\ v.value[i] = w.value[i]
            /\ \A c : c \in v.has[i] <=> c \in w.has[i] /\ (c \in Pairs => c.target \notin targets)
  BY WithoutShape
<1>2. ASSUME NEW id \in Ids, NEW c \in Components, c \notin v.has[id] PROVE v.value[id][c] = Default
  <2>1. CASE id \in ids
    BY <1>1, <2>1
  <2>2. CASE id \notin ids
    <3>1. c \notin w.has[id]
      BY <1>1, <1>2, <2>2, IdsAssumption
    <3> QED
      BY <1>1, <2>2, <3>1 DEF ValuesOwned
  <2> QED
    BY <2>1, <2>2
<1>3. ASSUME NEW id \in Ids PROVE w.gen[id] <= v.gen[id]
  <2>1. \A n \in 0 .. MaxGen + 1 : n \in Int
    BY IdsAssumption
  <2>2. w.gen[id] \in Int
    BY <2>1, WorldFacts
  <2> QED
    BY <1>1, <2>2
<1> QED
  BY <1>2, <1>3 DEF ValuesOwned

LEMMA DeleteOwned ==
    ASSUME NEW w, WorldOK(w), ValuesOwned(w), NEW e, NEW v, v = Delete(w, e)
    PROVE  ValuesOwned(v) /\ \A id \in Ids : w.gen[id] <= v.gen[id]
  BY WithoutOwned DEF Delete

LEMMA DoOwned ==
    ASSUME NEW w, WorldOK(w), ValuesOwned(w), NEW c \in CommandSet, NEW v, v = Do(w, c)
    PROVE  ValuesOwned(v)
<1>1. CASE ~Alive(w, c.entity)
  BY <1>1 DEF Do
<1>2. CASE Alive(w, c.entity) /\ (c.kind = "Delete" \/ (c.kind = "Add" /\ DeletesEntity(w, c.id)))
  <2> DEFINE e == c.entity
  <2>1. v = Delete(w, e) /\ e.id \in w.alive
    BY <1>2 DEF Do, Apply, Alive, DeletesEntity
  <2> HIDE DEF e
  <2> QED
    BY <2>1, DeleteOwned
<1>3. CASE Alive(w, c.entity) /\ c.kind # "Delete" /\ ~(c.kind = "Add" /\ DeletesEntity(w, c.id))
  <2> DEFINE i == c.entity.id
  <2>1. v = Apply(w, c) /\ i = c.entity.id
    BY <1>3 DEF Do
  <2> HIDE DEF i
  <2>2. /\ \A id \in Ids \ {i} : v.has[id] = w.has[id] /\ v.value[id] = w.value[id]
        /\ \A x \in AllIds : Lasts(x, w) \/ x \in PolicyPairs =>
              (x \in v.has[i] <=> (x \in w.has[i] /\ ~Drops(c, x)) \/ Adds(c, x))
        /\ \A x \in Components :
              v.value[i][x] = IF c.kind = "Set" /\ c.id = x THEN c.value
                              ELSE IF c.kind \in {"Modified", "Skip"} THEN w.value[i][x]
                              ELSE IF c.kind = "Add" /\ Invalid(w, c.id) THEN w.value[i][x]
                              ELSE IF x \in v.has[i] /\ x \in w.has[i] THEN w.value[i][x]
                              ELSE Default
    BY <1>3, <2>1, ApplyShape
  <2>3. ASSUME NEW id \in Ids, NEW x \in Components, x \notin v.has[id] PROVE v.value[id][x] = Default
    <3>1. CASE id # i
      BY <2>2, <2>3, <3>1 DEF ValuesOwned
    <3>2. CASE id = i
      <4>1. x \in AllIds /\ Lasts(x, w)
        BY IdsAssumption DEF AllIds, Lasts
      <4>2. ~Adds(c, x) /\ (x \in w.has[i] => Drops(c, x))
        BY <2>2, <2>3, <3>2, <4>1
      <4>3. ~(c.kind = "Set" /\ c.id = x)
        BY <4>2 DEF Adds
      <4>4. CASE x \notin w.has[i]
        <5>1. w.value[i][x] = Default
          BY <2>3, <3>2, <4>4 DEF ValuesOwned
        <5> QED
          BY <2>2, <3>2, <4>3, <5>1
      <4>5. CASE x \in w.has[i]
        <5>1. c.kind \in {"Clear", "Remove"}
          BY <4>2, <4>5 DEF Drops
        <5> QED
          BY <2>2, <2>3, <3>2, <5>1
      <4> QED
        BY <4>4, <4>5
    <3> QED
      BY <3>1, <3>2
  <2> QED
    BY <2>3 DEF ValuesOwned
<1> QED
  BY <1>1, <1>2, <1>3

\* A command leaves the values that it neither sets nor takes away.
LEMMA DoKeepsValue ==
    ASSUME NEW w, WorldOK(w), ValuesOwned(w), NEW c \in CommandSet, NEW v, v = Do(w, c),
           NEW id \in v.alive, NEW x \in Components,
           ~(c.entity.id = id /\ c.entity.gen = w.gen[id] /\ (Drops(c, x) \/ (c.kind = "Set" /\ c.id = x)))
    PROVE  v.value[id][x] = w.value[id][x]
<1>1. CASE ~Alive(w, c.entity)
  BY <1>1 DEF Do
<1>2. CASE Alive(w, c.entity) /\ (c.kind = "Delete" \/ (c.kind = "Add" /\ DeletesEntity(w, c.id)))
  <2> DEFINE e == c.entity
  <2>1. v = Delete(w, e) /\ e.id \in w.alive
    BY <1>2 DEF Do, Apply, Alive, DeletesEntity
  <2> HIDE DEF e
  <2> QED
    BY <2>1, DeleteShape
<1>3. CASE Alive(w, c.entity) /\ c.kind # "Delete" /\ ~(c.kind = "Add" /\ DeletesEntity(w, c.id))
  <2> DEFINE i == c.entity.id
  <2>1. v = Apply(w, c) /\ i = c.entity.id
    BY <1>3 DEF Do
  <2> HIDE DEF i
  <2>2. /\ v.alive = w.alive /\ i \in Ids
        /\ \A j \in Ids \ {i} : v.value[j] = w.value[j]
        /\ \A y \in AllIds : Lasts(y, w) \/ y \in PolicyPairs =>
              (y \in v.has[i] <=> (y \in w.has[i] /\ ~Drops(c, y)) \/ Adds(c, y))
        /\ v.value[i][x] = IF c.kind = "Set" /\ c.id = x THEN c.value
                           ELSE IF c.kind \in {"Modified", "Skip"} THEN w.value[i][x]
                           ELSE IF c.kind = "Add" /\ Invalid(w, c.id) THEN w.value[i][x]
                           ELSE IF x \in v.has[i] /\ x \in w.has[i] THEN w.value[i][x]
                           ELSE Default
    BY <1>3, <2>1, ApplyShape
  <2>3. id \in Ids /\ id \in w.alive
    BY <2>2, WorldFacts
  <2>4. CASE id # i
    BY <2>2, <2>3, <2>4
  <2>5. CASE id = i
    <3>1. x \in AllIds /\ Lasts(x, w)
      BY IdsAssumption DEF AllIds, Lasts
    <3>2. c.entity.id = id /\ c.entity.gen = w.gen[id]
      BY <1>3, <2>1, <2>5 DEF Alive
    <3>3. ~Drops(c, x) /\ ~(c.kind = "Set" /\ c.id = x)
      BY <3>2
    <3>4. x \in w.has[i] => x \in v.has[i]
      BY <2>2, <3>1, <3>3
    <3>5. x \notin w.has[i] => w.value[i][x] = Default
      BY <2>2 DEF ValuesOwned
    <3> QED
      BY <2>2, <2>5, <3>3, <3>4, <3>5
  <2> QED
    BY <2>4, <2>5
<1> QED
  BY <1>1, <1>2, <1>3

\* A command that a flush comes to is done already, or it is alone, or a batch is
\* done first.
AtCommand(w, q, n, phase) ==
    /\ phase \in {"visit", "execute"}
    /\ ~(phase = "visit" /\ q[n].next < 0 /\ Alive(w, q[n].entity))

LEMMA AloneOrOver ==
    ASSUME NEW w, NEW q \in Seq(CommandSet), NEW n \in 1 .. Len(q), NEW phase, NEW z,
           FlushOK(w, q, n, phase, z), AtCommand(w, q, n, phase), Alive(w, q[n].entity),
           NEW j \in Same(q, n), j > n
    PROVE  /\ q[n].kind \in Over
           /\ Touched(q, j, n, phase)
<1>1. n \in Same(q, n) /\ n \in n .. Len(q) /\ n \in Nat /\ Same(q, n) \subseteq Nat
      /\ Same(q, j) = Same(q, n)
  BY DEF Same
<1>2. LinkAt(q, n)
  BY DEF FlushOK
<1>3. Touched(q, n, n, phase)
  <2> SUFFICES ASSUME ~Touched(q, n, n, phase) PROVE FALSE
    OBVIOUS
  <2>1. phase = "visit" /\ \A k \in Same(q, n) : ~(k < n)
    BY <1>1 DEF Touched
  <2>2. \A k \in Same(q, n) : k >= n
    BY <1>1, <2>1
  <2>3. q[n].next < 0
    BY <1>2, <2>2 DEF LinkAt
  <2> QED
    BY <2>1, <2>3 DEF AtCommand
<1>4. q[n].kind \in Over
  <2>1. \A k \in Same(q, n) : ~(n <= k /\ k < n)
    BY <1>1
  <2> QED
    BY <1>1, <1>3, <2>1 DEF FlushOK, Passed
<1> QED
  BY <1>1, <1>3, <1>4 DEF Touched

LEMMA ExecuteLeads ==
    ASSUME NEW w, WorldOK(w), ValuesOwned(w), NEW q \in Seq(CommandSet), NEW n \in 1 .. Len(q),
           NEW phase, NEW z, WorldOK(z), FlushOK(w, q, n, phase, z), AtCommand(w, q, n, phase),
           NEW v, v = Do(w, q[n])
    PROVE  SameEnd(w, q, n, v, q, n + 1) /\ Leads(v, q, n + 1, z)
<1>1. Leads(w, q, n, z)
  BY DEF FlushOK
<1>2. Untangled(w, q, n)
  BY <1>1 DEF Leads
<1>3. SameEnd(w, q, n, v, q, n + 1)
  BY <1>2, DoSame
<1> DEFINE m == n + 1  c == q[n]
<1>4. n \in Nat /\ Len(q) \in Nat /\ n <= Len(q) /\ c \in CommandSet
  OBVIOUS
<1>5. \A j : /\ j \in n .. Len(q) <=> j \in m .. Len(q) \/ j = n
             /\ j \in m .. Len(q) => j > n /\ j \in Nat
  BY <1>4
<1>6. \A id : \A j \in Own(w, q, n, id) :
         j \in n .. Len(q) /\ q[j].entity = [id |-> id, gen |-> w.gen[id]]
  <2>1. \A id : \A j \in Own(w, q, n, id) : j \in n .. Len(q)
    BY DEF Own
  <2>2. n # 0
    BY <1>4
  <2>3. \A id : \A j \in Own(w, q, n, id) : q[j].entity = [id |-> id, gen |-> w.gen[id]]
    BY <1>4, <2>2, OwnFacts
  <2> QED
    BY <2>1, <2>3
<1>7. ASSUME NEW id \in v.alive, NEW x \in Components, InEnd(w, q, n, id, x),
             NEW u, IsEndValue(v, q, m, id, x, u)
      PROVE  IsEndValue(w, q, n, id, x, u)
  <2> DEFINE old == SetsOf(w, q, n, id, x)  new == SetsOf(v, q, m, id, x)
             own == c.entity.id = id /\ c.entity.gen = w.gen[id]
             sets == own /\ c.kind = "Set" /\ c.id = x
  <2>1. id \in w.alive /\ v.gen[id] = w.gen[id]
    BY <1>3 DEF SameEnd
  <2>2. /\ old = new \cup (IF sets THEN {n} ELSE {})
        /\ \A j \in new : j > n /\ j \in Nat
    <3> HIDE DEF m
    <3> QED
      BY <1>5, <2>1 DEF SetsOf, Own
  <2>3. /\ \/ \E j \in new : u = q[j].value /\ \A k \in new : k <= j
           \/ new = {} /\ u = v.value[id][x]
    <3> HIDE DEF m
    <3> QED
      BY <1>7 DEF IsEndValue
  <2>4. \/ \E j \in old : u = q[j].value /\ \A k \in old : k <= j
        \/ old = {} /\ u = w.value[id][x]
        => IsEndValue(w, q, n, id, x, u)
    BY DEF IsEndValue
  <2>5. CASE new # {}
    <3> HIDE DEF old, new, sets, m
    <3> QED
      BY <1>4, <2>2, <2>3, <2>4, <2>5
  <2>6. CASE new = {} /\ sets
    <3>1. v.value[id][x] = c.value
      <4> HIDE DEF c
      <4> QED
        BY <1>4, <2>1, <2>6, DoValue DEF c
    <3> HIDE DEF old, new, m
    <3> QED
      BY <1>4, <2>2, <2>3, <2>4, <2>6, <3>1
  <2>7. CASE new = {} /\ ~sets
    <3>1. old = {}
      BY <2>2, <2>7
    <3>2. v.value[id][x] = w.value[id][x]
      <4>1. ~(own /\ Drops(c, x))
        <5> SUFFICES ASSUME own, Drops(c, x) PROVE FALSE
          OBVIOUS
        <5>1. Alive(w, c.entity)
          BY <2>1 DEF Alive
        <5>2. n \in Own(w, q, n, id)
          BY <1>4 DEF Own
        <5>3. PICK j \in Own(w, q, n, id) : Adds(q[j], x)
          BY <1>7, <5>2 DEF InEnd
        <5>4. j # n
          BY <5>3 DEF Adds, Drops
        <5>5. j \in n .. Len(q) /\ q[j].entity = [id |-> id, gen |-> w.gen[id]]
          BY <1>6, <5>3
        <5>6. c.entity = [id |-> id, gen |-> w.gen[id]]
          BY <1>6, <5>2
        <5>7. j \in Same(q, n) /\ j > n
          BY <1>4, <5>4, <5>5, <5>6 DEF Same
        <5>8. c.kind \in Over
          BY <5>1, <5>7, AloneOrOver, Zenon
        <5> QED
          BY <5>8 DEF Over, Drops
      <4> HIDE DEF c
      <4> QED
        BY <1>4, <2>7, <4>1, DoKeepsValue DEF c
    <3> HIDE DEF old, new, m
    <3> QED
      BY <2>3, <2>4, <2>7, <3>1, <3>2
  <2> QED
    BY <2>5, <2>6, <2>7
<1>8. SameEnd(w, q, n, v, q, m)
  BY <1>3
<1> HIDE DEF m
<1>9. Leads(v, q, m, z)
  BY <1>1, <1>7, <1>8, LeadsSame
<1> QED
  BY <1>3, <1>9 DEF m

LEMMA ExecuteFlushes ==
    ASSUME NEW w, WorldOK(w), ValuesOwned(w), NEW q \in Seq(CommandSet), NEW n \in 1 .. Len(q),
           NEW phase, NEW z, WorldOK(z), FlushOK(w, q, n, phase, z), AtCommand(w, q, n, phase),
           NEW v, v = Do(w, q[n])
    PROVE  FlushOK(v, q, n + 1, "visit", z)
<1>1. SameEnd(w, q, n, v, q, n + 1) /\ Leads(v, q, n + 1, z)
  BY ExecuteLeads
<1>2. \A e : Alive(v, e) => Alive(w, e)
  BY <1>1, AliveBefore, Zenon DEF SameEnd
<1>3. n \in Nat /\ Len(q) \in Nat /\ n <= Len(q) /\ q[n] \in CommandSet
  OBVIOUS
<1>4. ASSUME NEW j \in n + 1 .. Len(q), Alive(v, q[j].entity), Touched(q, j, n + 1, "visit")
      PROVE  q[j].kind \in Over \/ \E k \in Same(q, j) : n + 1 <= k /\ k < j /\ q[k].kind = "Delete"
  <2>1. j \in n .. Len(q) /\ j \in 1 .. Len(q) /\ Alive(w, q[j].entity) /\ Same(q, j) \subseteq Nat
    BY <1>2, <1>3, <1>4 DEF Same
  <2>2. Touched(q, j, n, phase)
    <3> SUFFICES ASSUME ~Touched(q, j, n, phase) PROVE FALSE
      OBVIOUS
    <3>1. n \in Same(q, j)
      BY <1>3, <1>4, <2>1 DEF Touched
    <3>2. q[n].entity = q[j].entity /\ j \in Same(q, n) /\ j > n
      BY <1>3, <1>4, <3>1 DEF Same
    <3> QED
      BY <2>1, <3>2, AloneOrOver
  <2>3. q[j].kind \in Over \/ \E k \in Same(q, j) : n <= k /\ k < j /\ q[k].kind = "Delete"
    BY <2>1, <2>2 DEF FlushOK, Passed
  <2>4. n \in Same(q, j) => q[n].kind # "Delete"
    <3> SUFFICES ASSUME n \in Same(q, j), q[n].kind = "Delete" PROVE FALSE
      OBVIOUS
    <3> DEFINE e == q[j].entity
    <3>1. e = q[n].entity /\ Alive(w, e)
      BY <2>1 DEF Same
    <3>2. v = Delete(w, e) /\ e.id \in w.alive
      BY <3>1 DEF Do, Apply, Alive
    <3>3. Alive(v, e)
      BY <1>4
    <3> HIDE DEF e
    <3>4. e.id \notin v.alive
      BY <3>2, DeleteShape, DoomedFacts
    <3> QED
      BY <3>3, <3>4 DEF Alive
  <2> QED
    BY <1>3, <2>1, <2>3, <2>4
<1> QED
  BY <1>1, <1>2, <1>4 DEF FlushOK, Passed

-----------------------------------------------------------------------------
(* The queues that flushes begin with                                        *)

\* A queue that takes commands: no handle is ahead of its entity, and all the
\* commands of a living entity are between the first and the last that its entry
\* names, the first marked and each linked to a later one.
QueueSound(w, q, entries) ==
    /\ QueuedOK(q)
    /\ \A j \in 1 .. Len(q) :
          LET e == q[j].entity
              x == entries[e.id]
          IN  /\ e.gen <= w.gen[e.id]
              /\ e.gen = w.gen[e.id] => x.first # 0 /\ x.first <= j /\ q[x.first].entity = e
    /\ \A id \in Ids : entries[id].first # 0 =>
          \A j \in OwnCommands(q, entries[id]) \ {entries[id].last} :
             Abs(q[j].next) > j /\ (q[j].next < 0 <=> j = entries[id].first)

LEMMA EmptySound ==
    ASSUME NEW w, NEW entries, Chained(<<>>, entries)
    PROVE  QueueSound(w, <<>>, entries)
<1>1. \A j \in 1 .. Len(<<>>) : FALSE
  OBVIOUS
<1>2. \A id \in Ids : entries[id].first = 0
  <2>1. DOMAIN <<>> = 1 .. Len(<<>>)
    OBVIOUS
  <2>2. ASSUME NEW id \in Ids, entries[id].first # 0 PROVE FALSE
    <3>1. ChainSound(<<>>, entries[id], id)
      BY <2>2 DEF Chained
    <3>2. entries[id].first \in DOMAIN <<>>
      BY <3>1 DEF ChainSound
    <3> QED
      BY <1>1, <2>1, <3>2
  <2> QED
    BY <2>2, Zenon
<1> QED
  BY <1>1, <1>2 DEF QueueSound, QueuedOK

\* Generations only grow.
LEMMA QueueSoundKept ==
    ASSUME NEW w, NEW v, NEW q \in Seq(CommandSet), NEW entries, QueueSound(w, q, entries),
           w.gen \in [Ids -> Int], v.gen \in [Ids -> Int],
           \A id \in Ids : w.gen[id] <= v.gen[id]
    PROVE  QueueSound(v, q, entries)
<1>1. ASSUME NEW j \in 1 .. Len(q)
      PROVE  LET e == q[j].entity
                 x == entries[e.id]
             IN  /\ e.gen <= v.gen[e.id]
                 /\ e.gen = v.gen[e.id] => x.first # 0 /\ x.first <= j /\ q[x.first].entity = e
  <2> DEFINE e == q[j].entity  x == entries[e.id]
  <2>1. e \in Handles
    <3>1. q[j] \in CommandSet
      OBVIOUS
    <3> QED
      BY <3>1 DEF CommandSet
  <2>2. e.id \in Ids /\ e.gen \in Int
    BY <2>1, IdsAssumption DEF Handles
  <2>3. /\ e.gen <= w.gen[e.id]
        /\ e.gen = w.gen[e.id] => x.first # 0 /\ x.first <= j /\ q[x.first].entity = e
    BY DEF QueueSound
  <2>4. w.gen[e.id] <= v.gen[e.id] /\ w.gen[e.id] \in Int /\ v.gen[e.id] \in Int
    BY <2>2
  <2> HIDE DEF e, x
  <2>5. e.gen <= v.gen[e.id] /\ (e.gen = v.gen[e.id] => e.gen = w.gen[e.id])
    BY <2>2, <2>3, <2>4
  <2> QED
    BY <2>3, <2>5 DEF e, x
<1> QED
  BY <1>1 DEF QueueSound

\* All the commands of a living entity are linked, from the first on.
LEMMA SoundLinks ==
    ASSUME NEW w, WorldOK(w), NEW q \in Seq(CommandSet), NEW entries \in [Ids -> Entries],
           Chained(q, entries), QueueSound(w, q, entries),
           NEW j \in 1 .. Len(q), Alive(w, q[j].entity)
    PROVE  LinkAt(q, j)
<1> DEFINE e == q[j].entity  x == entries[e.id]  own == OwnCommands(q, x)
<1>1. e.id \in Ids /\ e.gen = w.gen[e.id] /\ x \in Entries
  <2>1. q[j] \in CommandSet
    OBVIOUS
  <2> QED
    BY <2>1 DEF CommandSet, Handles, Alive
<1>2. \A k \in Same(q, j) : k \in 1 .. Len(q) /\ q[k].entity = e
  BY DEF Same
<1>3. \A k \in Same(q, j) : x.first # 0 /\ x.first <= k /\ q[x.first].entity = e
  BY <1>1, <1>2 DEF QueueSound
<1>4. j \in Same(q, j) /\ j \in Nat
  BY DEF Same
<1>5. ChainSound(q, x, e.id)
  BY <1>1, <1>3, <1>4 DEF Chained
<1>6. x.first \in 1 .. Len(q) /\ x.last \in own
  BY <1>1, <1>5, ChainFacts
<1>7. own = Same(q, j)
  <2>1. own = {k \in x.first .. Len(q) : q[k].entity = e}
    BY <1>3, <1>4 DEF OwnCommands
  <2>2. Same(q, j) = {k \in 1 .. Len(q) : q[k].entity = e}
    BY DEF Same
  <2>3. \A k \in Same(q, j) : k \in x.first .. Len(q)
    <3> HIDE DEF e, x
    <3> QED
      BY <1>2, <1>3, <1>6
  <2>4. \A k \in x.first .. Len(q) : k \in 1 .. Len(q)
    BY <1>6
  <2> HIDE DEF own, e, x
  <2> QED
    BY <2>1, <2>2, <2>3, <2>4
<1>8. /\ \A k \in own : k <= x.last
      /\ \A k \in own \ {x.last} :
            Abs(q[k].next) \in own /\ \A l \in own : l > k => Abs(q[k].next) <= l
      /\ q[x.last].next = 0
  BY <1>5 DEF ChainSound
<1>9. \A k \in own \ {x.last} : Abs(q[k].next) > k /\ (q[k].next < 0 <=> k = x.first)
  BY <1>1, <1>3, <1>4 DEF QueueSound
<1>10. x.first \in own /\ x.first <= j /\ x.last \in Nat /\ x.first \in Nat
  <2>1. x.first \in Same(q, j)
    <3> HIDE DEF e, x
    <3> QED
      BY <1>3, <1>4, <1>6 DEF Same, e
  <2> QED
    BY <1>1, <1>3, <1>4, <1>7, <2>1 DEF Entries
<1> HIDE DEF own, e, x
<1>11. ASSUME NEW k \in Same(q, j), k > j
       PROVE  Abs(q[j].next) \in Same(q, j) /\ Abs(q[j].next) > j /\ Abs(q[j].next) <= k
  <2>1. k \in own /\ j \in own /\ k <= x.last /\ k \in Nat
    BY <1>2, <1>4, <1>7, <1>8
  <2>2. j # x.last
    BY <1>4, <1>10, <1>11, <2>1
  <2> QED
    BY <1>7, <1>8, <1>9, <1>11, <2>1, <2>2
<1>12. ASSUME \A k \in Same(q, j) : k <= j PROVE q[j].next = 0
  <2>1. x.last <= j /\ j <= x.last
    BY <1>4, <1>6, <1>7, <1>8, <1>12
  <2>2. j = x.last
    BY <1>4, <1>10, <2>1
  <2> QED
    BY <1>8, <2>2
<1>13. ASSUME \E k \in Same(q, j) : k > j, \A k \in Same(q, j) : k >= j PROVE q[j].next < 0
  <2>1. j = x.first
    BY <1>4, <1>7, <1>10, <1>13
  <2>2. PICK k \in Same(q, j) : k > j
    BY <1>13
  <2>3. j # x.last
    BY <1>2, <1>4, <1>7, <1>8, <1>10, <2>2
  <2> QED
    BY <1>4, <1>7, <1>9, <2>1, <2>3
<1> QED
  BY <1>11, <1>12, <1>13 DEF LinkAt

\* What flecs_cmd_new_batched makes of a queue.
LinkedShape(q, entry, c, r) ==
    LET L == Len(q)
        linked == IsLinked(q, entry, c)
    IN  /\ Len(r) = L + 1
        /\ \A j \in 1 .. L : /\ r[j].entity = q[j].entity /\ r[j].op = q[j].op
                             /\ r[j].kind = q[j].kind /\ r[j].id = q[j].id /\ r[j].value = q[j].value
        /\ \A j \in 1 .. L : ~linked \/ j # entry.last => r[j].next = q[j].next
        /\ linked => r[entry.last].next = IF entry.last = entry.first THEN -(L + 1) ELSE L + 1
        /\ r[L + 1].entity = c.entity /\ r[L + 1].op = c.op
        /\ r[L + 1].kind = c.kind /\ r[L + 1].id = c.id /\ r[L + 1].value = c.value

LEMMA LinkedHasShape ==
    ASSUME NEW q \in Seq(CommandSet), NEW entry \in Entries, NEW c \in CommandSet,
           IsLinked(q, entry, c) => entry.last \in 1 .. Len(q)
    PROVE  LinkedShape(q, entry, c, Linked(q, entry, c))
<1> DEFINE L == Len(q)
           linked == IsLinked(q, entry, c)
           n == IF entry.last = entry.first THEN -(L + 1) ELSE L + 1
           u == [q[entry.last] EXCEPT !.next = n]
           base == IF linked THEN [q EXCEPT ![entry.last].next = n] ELSE q
           new == [c EXCEPT !.entry = ~linked]
           r == Linked(q, entry, c)
<1>1. L \in Nat /\ linked \in BOOLEAN /\ n \in Int
  BY DEF IsLinked
<1>2. /\ new \in CommandSet /\ new.entity = c.entity /\ new.op = c.op
      /\ new.kind = c.kind /\ new.id = c.id /\ new.value = c.value
  BY <1>1, Zenon DEF CommandSet
<1>3. /\ base \in Seq(CommandSet) /\ Len(base) = L
      /\ \A j \in 1 .. L : /\ base[j].entity = q[j].entity /\ base[j].op = q[j].op
                           /\ base[j].kind = q[j].kind /\ base[j].id = q[j].id
                           /\ base[j].value = q[j].value
      /\ \A j \in 1 .. L : ~linked \/ j # entry.last => base[j].next = q[j].next
      /\ linked => base[entry.last].next = n
  <2>1. CASE ~linked
    BY <2>1
  <2>2. CASE linked
    <3>1. base = [q EXCEPT ![entry.last] = u]
      BY <2>2
    <3>2. q[entry.last] \in CommandSet
      BY <2>2
    <3> HIDE DEF n
    <3>3. /\ u \in CommandSet /\ u.next = n /\ u.entity = q[entry.last].entity
          /\ u.op = q[entry.last].op /\ u.kind = q[entry.last].kind /\ u.id = q[entry.last].id
          /\ u.value = q[entry.last].value
      BY <1>1, <3>2, Zenon DEF CommandSet
    <3> HIDE DEF base, u
    <3>4. /\ base \in Seq(CommandSet) /\ Len(base) = L
          /\ base[entry.last] = u /\ \A j \in 1 .. L : j # entry.last => base[j] = q[j]
      BY <2>2, <3>1, <3>3
    <3>5. \A j \in 1 .. L : /\ base[j].entity = q[j].entity /\ base[j].op = q[j].op
                            /\ base[j].kind = q[j].kind /\ base[j].id = q[j].id
                           /\ base[j].value = q[j].value
      BY <3>3, <3>4
    <3> QED
      BY <2>2, <3>3, <3>4, <3>5
  <2> QED
    BY <2>1, <2>2
<1>4. r = Append(base, new)
  BY DEF Linked
<1> HIDE DEF base, new, r
<1>5. Len(r) = L + 1 /\ r[L + 1] = new /\ \A j \in 1 .. L : r[j] = base[j]
  BY <1>1, <1>2, <1>3, <1>4
<1>6. linked => r[entry.last].next = n
  BY <1>3, <1>5
<1>7. /\ \A j \in 1 .. L : /\ r[j].entity = q[j].entity /\ r[j].op = q[j].op
                           /\ r[j].kind = q[j].kind /\ r[j].id = q[j].id /\ r[j].value = q[j].value
      /\ \A j \in 1 .. L : ~linked \/ j # entry.last => r[j].next = q[j].next
  BY <1>3, <1>5
<1>8. /\ r[L + 1].entity = c.entity /\ r[L + 1].op = c.op
      /\ r[L + 1].kind = c.kind /\ r[L + 1].id = c.id /\ r[L + 1].value = c.value
  BY <1>2, <1>5
<1> QED
  BY <1>5, <1>6, <1>7, <1>8 DEF LinkedShape, r

\* A command as it is queued.
Queued(c) ==
    /\ c.kind = c.op \/ (c.op = "Set" /\ c.kind = "AddModified")
    /\ c.op \in {"Add", "Remove", "Set", "Clear", "Delete"}
    /\ c.op = "Clear" => c.id \notin Pairs

LEMMA LinkedSound ==
    ASSUME NEW w, NEW q \in Seq(CommandSet), NEW entries \in [Ids -> Entries],
           Chained(q, entries), QueueSound(w, q, entries),
           NEW c \in CommandSet, Queued(c), Alive(w, c.entity),
           NEW r, NEW after, Links(q, entries, c, r, after)
    PROVE  QueueSound(w, r, after)
<1> DEFINE L == Len(q)  e == c.entity  i == e.id  entry == entries[i]
           linked == IsLinked(q, entry, c)
<1>1. /\ L \in Nat /\ i \in Ids /\ e \in Handles /\ e.gen = w.gen[i]
      /\ entry \in Entries /\ entry.first \in Nat /\ entry.last \in Nat
  BY DEF CommandSet, Handles, Alive, Entries
<1>2. linked => /\ ChainSound(q, entry, i) /\ entry.first # 0
                /\ entry.first \in 1 .. L /\ entry.last \in 1 .. L
                /\ q[entry.first].entity = e /\ q[entry.last].entity = e
  <2> SUFFICES ASSUME linked
               PROVE  ChainSound(q, entry, i) /\ entry.first # 0 /\ q[entry.last].entity = e
    BY <1>1, ChainFacts
  <2> QED
    BY <1>1 DEF Chained, IsLinked
<1>3. LinkedShape(q, entry, c, r)
  BY <1>1, <1>2, LinkedHasShape DEF Links
<1>4. /\ Len(r) = L + 1
      /\ \A j \in 1 .. L : /\ r[j].entity = q[j].entity /\ r[j].op = q[j].op
                           /\ r[j].kind = q[j].kind /\ r[j].id = q[j].id
      /\ \A j \in 1 .. L : ~linked \/ j # entry.last => r[j].next = q[j].next
      /\ linked => r[entry.last].next = IF entry.last = entry.first THEN -(L + 1) ELSE L + 1
      /\ r[L + 1].entity = e /\ r[L + 1].op = c.op /\ r[L + 1].kind = c.kind /\ r[L + 1].id = c.id
  BY <1>3, Zenon DEF LinkedShape
<1>5. /\ after[i].first = IF linked THEN entry.first ELSE L + 1
      /\ after[i].last = L + 1
      /\ \A id \in Ids : id # i => after[id] = entries[id]
  BY <1>1 DEF LinkedEntry, Links
<1>6. \A j \in 1 .. Len(r) : j \in 1 .. L \/ j = L + 1
  BY <1>1, <1>4
<1> HIDE DEF L
<1>7. QueuedOK(r)
  <2>1. \A j \in 1 .. L : Queued(q[j])
    BY DEF QueueSound, QueuedOK, Queued, L
  <2>2. \A j \in 1 .. L : Queued(r[j])
    BY <1>4, <2>1 DEF Queued
  <2>3. Queued(r[L + 1])
    BY <1>4 DEF Queued
  <2>4. \A j \in 1 .. Len(r) : Queued(r[j])
    BY <1>6, <2>2, <2>3
  <2> QED
    BY <2>4 DEF QueuedOK, Queued
<1>8. \A j \in 1 .. L : q[j] \in CommandSet /\ q[j].entity \in Handles
  BY DEF CommandSet, L
<1>9. \A j \in 1 .. L :
         LET d == q[j].entity
             x == entries[d.id]
         IN  /\ d.gen <= w.gen[d.id]
             /\ d.gen = w.gen[d.id] => x.first # 0 /\ x.first <= j /\ q[x.first].entity = d
  BY DEF QueueSound, L
\* A command of the entity before c is linked, as it has the same generation.
<1>10. ASSUME NEW j \in 1 .. L, q[j].entity = e PROVE linked
  <2>1. entry.first # 0 /\ q[entry.first].entity = e
    BY <1>1, <1>9, <1>10, Zenon
  <2>2. ChainSound(q, entry, i)
    BY <1>1, <2>1 DEF Chained
  <2>3. q[entry.last].entity = q[entry.first].entity
    BY <1>1, <2>2, ChainFacts
  <2> QED
    BY <2>1, <2>3 DEF IsLinked
<1>11. ASSUME NEW j \in 1 .. Len(r)
       PROVE  LET d == r[j].entity
                  x == after[d.id]
              IN  /\ d.gen <= w.gen[d.id]
                  /\ d.gen = w.gen[d.id] => x.first # 0 /\ x.first <= j /\ r[x.first].entity = d
  <2> DEFINE d == r[j].entity  x == after[d.id]
  <2>1. CASE j = L + 1
    <3>1. d = e /\ d.gen <= w.gen[d.id]
      <4>1. d = e
        BY <1>4, <2>1
      <4>2. e.gen \in Int
        BY <1>1, IdsAssumption DEF Handles
      <4> QED
        BY <1>1, <4>1, <4>2
    <3>2. CASE linked
      <4>1. x.first = entry.first /\ r[entry.first].entity = q[entry.first].entity
        BY <1>2, <1>4, <1>5, <3>1, <3>2, Zenon
      <4> QED
        BY <1>1, <1>2, <2>1, <3>1, <3>2, <4>1
    <3>3. CASE ~linked
      <4>1. x.first = L + 1
        BY <1>5, <3>1, <3>3
      <4> QED
        BY <1>1, <2>1, <3>1, <4>1
    <3> QED
      BY <3>2, <3>3, Zenon
  <2>2. CASE j \in 1 .. L
    <3>1. d = q[j].entity /\ d \in Handles /\ d.id \in Ids /\ d.gen <= w.gen[d.id]
      BY <1>4, <1>8, <1>9, <2>2, Zenon DEF Handles
    <3>2. ASSUME d.gen = w.gen[d.id] PROVE x.first # 0 /\ x.first <= j /\ r[x.first].entity = d
      <4> DEFINE y == entries[d.id]
      <4>1. y.first # 0 /\ y.first <= j /\ q[y.first].entity = d
        BY <1>9, <2>2, <3>1, <3>2
      <4>2. x.first = y.first
        <5>1. CASE d.id = i
          <6>1. d = e
            <7>1. d \in Handles /\ e \in Handles /\ d.id = e.id /\ d.gen = e.gen
              BY <1>1, <3>1, <3>2, <5>1
            <7> HIDE DEF d, e
            <7> QED
              BY <7>1 DEF Handles
          <6>2. linked
            BY <1>10, <2>2, <3>1, <6>1, Zenon
          <6> QED
            BY <1>5, <5>1, <6>2
        <5>2. CASE d.id # i
          BY <1>5, <3>1, <5>2
        <5> QED
          BY <5>1, <5>2, Zenon
      <4>3. y.first \in 1 .. L
        <5>1. y \in Entries
          BY <3>1
        <5>2. y.first \in Nat
          BY <5>1 DEF Entries
        <5> HIDE DEF y, d
        <5> QED
          BY <1>1, <2>2, <4>1, <5>2
      <4>4. r[y.first].entity = q[y.first].entity
        BY <1>4, <4>3, Zenon
      <4> HIDE DEF d, x, y
      <4> QED
        BY <4>1, <4>2, <4>4
    <3> QED
      BY <3>1, <3>2
  <2> QED
    BY <1>6, <2>1, <2>2, Zenon
<1>12. ASSUME NEW id \in Ids, after[id].first # 0, NEW j \in OwnCommands(r, after[id]) \ {after[id].last}
       PROVE  Abs(r[j].next) > j /\ (r[j].next < 0 <=> j = after[id].first)
  <2> DEFINE x == entries[id]
  <2>1. CASE id # i
    <3>1. after[id] = x /\ x \in Entries
      BY <1>5, <2>1
    <3>2. ChainSound(q, x, id)
      BY <1>12, <3>1 DEF Chained
    <3>3. x.first \in 1 .. L /\ q[x.first].entity.id = id
      BY <3>1, <3>2, ChainFacts DEF L
    <3>4. r[x.first].entity = q[x.first].entity
      BY <1>4, <3>3
    <3>5. j \in x.first .. L + 1 /\ r[j].entity = q[x.first].entity /\ j # x.last
      <4>1. j \in OwnCommands(r, x) /\ j # x.last
        BY <1>12, <3>1
      <4> QED
        BY <1>4, <3>4, <4>1, Zenon DEF OwnCommands
    <3>6. j # L + 1
      BY <1>4, <2>1, <3>3, <3>5
    <3>7. j \in 1 .. L /\ j \in x.first .. L
      BY <1>1, <3>3, <3>5, <3>6
    <3>8. q[j].entity = q[x.first].entity
      BY <1>4, <3>5, <3>7
    <3>9. j \in OwnCommands(q, x) \ {x.last}
      BY <3>5, <3>7, <3>8 DEF OwnCommands, L
    <3>10. Abs(q[j].next) > j /\ (q[j].next < 0 <=> j = x.first)
      BY <1>12, <3>1, <3>9 DEF QueueSound
    <3>11. linked => j # entry.last
      BY <1>2, <2>1, <3>3, <3>8
    <3>12. r[j].next = q[j].next
      BY <1>4, <3>7, <3>11
    <3> QED
      BY <3>1, <3>10, <3>12
  <2>2. CASE id = i
    <3>1. after[id].last = L + 1 /\ j # L + 1
      BY <1>5, <1>12, <2>2
    <3>2. j \in after[id].first .. L + 1 /\ r[j].entity = r[after[id].first].entity
      BY <1>4, <1>12, Zenon DEF OwnCommands
    <3>3. linked
      <4> SUFFICES ASSUME ~linked PROVE FALSE
        OBVIOUS
      <4>1. after[id].first = L + 1
        BY <1>5, <2>2
      <4> QED
        BY <1>1, <3>1, <3>2, <4>1
    <3>4. after[id].first = entry.first
      BY <1>5, <2>2, <3>3
    <3>5. j \in entry.first .. L /\ j \in 1 .. L
      BY <1>1, <1>2, <3>1, <3>2, <3>3, <3>4
    <3>6. q[j].entity = q[entry.first].entity
      <4>1. r[entry.first].entity = q[entry.first].entity /\ r[j].entity = q[j].entity
        BY <1>2, <1>4, <3>3, <3>5, Zenon
      <4> QED
        BY <3>2, <3>4, <4>1, Zenon
    <3>7. CASE j = entry.last
      <4>1. r[j].next = IF entry.last = entry.first THEN -(L + 1) ELSE L + 1
        BY <1>4, <3>3, <3>7
      <4> QED
        BY <1>1, <3>4, <3>5, <3>7, <4>1 DEF Abs
    <3>8. CASE j # entry.last
      <4>1. j \in OwnCommands(q, entry) \ {entry.last}
        BY <3>5, <3>6, <3>8 DEF OwnCommands, L
      <4>2. Abs(q[j].next) > j /\ (q[j].next < 0 <=> j = entry.first)
        BY <1>1, <1>2, <3>3, <4>1 DEF QueueSound
      <4> QED
        BY <1>4, <3>4, <3>5, <3>8, <4>2
    <3> QED
      BY <3>7, <3>8
  <2> QED
    BY <2>1, <2>2
<1> QED
  BY <1>7, <1>11, <1>12, Zenon DEF QueueSound

-----------------------------------------------------------------------------
(* The invariant of a flush                                                  *)

\* Stages that are not flushed are ready to be.
QueuesSound(w, st) ==
    \A s \in Stages : st[s].at = 0 => QueueSound(w, st[s].queue, st[s].entries)

\* Between the commit of a batch and its values, the flush is seen as it is when
\* they are in place.
ViewWorld(w, x) == IF x.phase = "set" THEN BatchedValues(w, x.flushed, x.at) ELSE w
ViewQueue(w, x) == IF x.phase = "set" THEN BatchedSets(w, x.flushed, x.at) ELSE x.flushed

\* One stage is flushed, and nothing is queued; and z is where that leads.
FlushAt(w, st, s, z) ==
    /\ st[0].queue = <<>> /\ st[s].queue = <<>>
    /\ \A t \in Stages \ {s} : st[t].at = 0
    /\ FlushOK(ViewWorld(w, st[s]), ViewQueue(w, st[s]), st[s].at, st[s].phase, z)
FlushSound(w, st, z) ==
    /\ WorldOK(z)
    /\ \A s \in Stages : st[s].at # 0 => FlushAt(w, st, s, z)
    /\ (\A s \in Stages : st[s].at = 0) => Reached(w, z)

\* A value that was written at once is there, unless the storage was changed in
\* the meantime.
WriteSound(w, q) ==
    \A j \in 1 .. Len(q) : q[j].kind = "AddModified" =>
        /\ Alive(w, q[j].entity)
        /\ IsLastSet(q, j) => w.value[q[j].entity.id][q[j].id] = q[j].value
WritesSound(w, st, b) ==
    \A s \in Stages : st[s].at = 0 =>
        /\ stageCount # 1 => \A j \in 1 .. Len(st[s].queue) : st[s].queue[j].kind # "AddModified"
        /\ ~b => WriteSound(w, st[s].queue)

FInv ==
    /\ IInv
    /\ ValuesOwned(world) /\ reacted \in Nat
    /\ QueuesSound(world, stage) /\ WritesSound(world, stage, bypassed)
    /\ expected # NoWorld => FlushSound(world, stage, expected)

\* A step keeps the invariant if it leaves its parts.
LEMMA FlushKeptByParts ==
    ASSUME IInv', stageCount' = stageCount, ValuesOwned(world'), reacted' \in Nat,
           QueuesSound(world', stage'), WritesSound(world', stage', bypassed'),
           expected' # NoWorld => FlushSound(world', stage', expected')
    PROVE  FInv'
<1>1. Stages' = Stages
  BY DEF Stages
<1>2. ValuesOwned(world)' /\ QueuesSound(world, stage)' /\ WritesSound(world, stage, bypassed)'
  BY <1>1 DEF ValuesOwned, QueuesSound, WritesSound
<1>3. FlushSound(world, stage, expected)' <=> FlushSound(world', stage', expected')
  BY <1>1 DEF FlushSound, FlushAt
<1> QED
  BY <1>2, <1>3 DEF FInv

\* Stages whose queues a step leaves, starts to flush or has flushed.
QueuesKept(st, r) ==
    \A s \in Stages : r[s].at = 0 =>
        \/ r[s].queue = <<>>
        \/ st[s].at = 0 /\ r[s].queue = st[s].queue /\ r[s].entries = st[s].entries

LEMMA QueuesKeptSound ==
    ASSUME NEW w, WorldOK(w), NEW st, StagesOK(st), QueuesSound(w, st),
           NEW v, WorldOK(v), \A id \in Ids : w.gen[id] <= v.gen[id],
           NEW r, StagesOK(r), QueuesKept(st, r)
    PROVE  QueuesSound(v, r)
<1> SUFFICES ASSUME NEW s \in Stages, r[s].at = 0
             PROVE  QueueSound(v, r[s].queue, r[s].entries)
  BY DEF QueuesSound
<1>1. CASE r[s].queue = <<>>
  <2>1. Chained(r[s].queue, r[s].entries)
    BY DEF StagesOK, StageOK, QueueOK
  <2> QED
    BY <1>1, <2>1, EmptySound
<1>2. CASE st[s].at = 0 /\ r[s].queue = st[s].queue /\ r[s].entries = st[s].entries
  <2> DEFINE q == st[s].queue  entries == st[s].entries
  <2>1. st[s] \in StageSet /\ QueueSound(w, q, entries)
    BY <1>2 DEF StagesOK, QueuesSound
  <2>2. q \in Seq(CommandSet)
    BY <2>1, StageFacts
  <2>3. w.gen \in [Ids -> Int] /\ v.gen \in [Ids -> Int]
    <3>1. \A n \in 0 .. MaxGen + 1 : n \in Int
      BY IdsAssumption
    <3>2. w.gen \in [Ids -> 0 .. MaxGen + 1] /\ v.gen \in [Ids -> 0 .. MaxGen + 1]
      BY WorldFacts
    <3> QED
      BY <3>1, <3>2
  <2> HIDE DEF q, entries
  <2>4. QueueSound(v, q, entries)
    BY <2>1, <2>2, <2>3, QueueSoundKept, Zenon
  <2> QED
    BY <1>2, <2>4 DEF q, entries
<1> QED
  BY <1>1, <1>2 DEF QueuesKept

\* Where no stage had a value that was written at once, none has one then.
LEMMA WritesKeptSound ==
    ASSUME NEW w, NEW st, NEW b, WritesSound(w, st, b), NEW r, StagesOK(r), QueuesKept(st, r),
           stageCount = 1 => st[0].at # 0 \/ st[0].queue = <<>>,
           NEW v, NEW d
    PROVE  WritesSound(v, r, d)
<1> SUFFICES ASSUME NEW s \in Stages, r[s].at = 0, NEW j \in 1 .. Len(r[s].queue)
             PROVE  r[s].queue[j].kind # "AddModified"
  BY DEF WritesSound, WriteSound
<1>1. r[s].queue # <<>>
  OBVIOUS
<1>2. st[s].at = 0 /\ r[s].queue = st[s].queue
  BY <1>1 DEF QueuesKept
<1>3. stageCount # 1
  BY <1>1, <1>2 DEF Stages
<1> QED
  BY <1>2, <1>3 DEF WritesSound

LEMMA QueuesKeptTrans ==
    ASSUME NEW st, NEW r, NEW u, QueuesKept(st, r), QueuesKept(r, u)
    PROVE  QueuesKept(st, u)
  BY DEF QueuesKept

\* Where the generations do not change.
LEMMA SameGens ==
    ASSUME NEW w, WorldOK(w), NEW v, v.gen = w.gen
    PROVE  \A id \in Ids : w.gen[id] <= v.gen[id]
<1>1. \A n \in 0 .. MaxGen + 1 : n \in Int
  BY IdsAssumption
<1>2. \A id \in Ids : w.gen[id] \in 0 .. MaxGen + 1
  BY WorldFacts
<1>3. \A n \in Int : n <= n
  OBVIOUS
<1> QED
  BY <1>1, <1>2, <1>3, Zenon

\* What flecs_defer_end begins with.
LEMMA StartFlushShape ==
    ASSUME NEW st \in [Stages -> StageSet], NEW s \in Stages, NEW r, r = StartFlush(st, s)
    PROVE  /\ r[s].queue = <<>> /\ r[s].flushed = st[s].queue /\ r[s].phase = "visit"
           /\ r[s].at = IF st[s].queue = <<>> THEN 0 ELSE 1
           /\ \A t \in Stages \ {s} : r[t] = st[t]
           /\ QueuesKept(st, r)
<1> DEFINE x == st[s]  n == IF x.queue = <<>> THEN 0 ELSE 1
           y == [x EXCEPT !.queue = <<>>, !.flushed = x.queue, !.entries = x.stale,
                          !.stale = x.entries, !.at = n, !.phase = "visit"]
<1>1. x \in StageSet
  OBVIOUS
<1>2. r = [st EXCEPT ![s] = y]
  BY Zenon DEF StartFlush
<1> HIDE DEF n
<1>3. y.queue = <<>> /\ y.flushed = x.queue /\ y.at = n /\ y.phase = "visit"
  BY <1>1 DEF StageSet
<1> HIDE DEF y
<1>4. r[s] = y /\ \A t \in Stages \ {s} : r[t] = st[t]
  BY <1>2
<1>5. QueuesKept(st, r)
  BY <1>3, <1>4 DEF QueuesKept
<1> QED
  BY <1>3, <1>4, <1>5 DEF n

\* The end of an operation, and what is queued then.
LEMMA EndOperationShape ==
    ASSUME 0 \in Stages, NEW st, StagesOK(st), NEW r, r = EndOperation(st)
    PROVE  /\ \A t \in Stages \ {0} : r[t] = st[t]
           /\ st[0].at # 0 => r = st
           /\ st[0].at = 0 => r[0].queue = <<>> /\ (st[0].queue = <<>> => r[0].at = 0)
           /\ QueuesKept(st, r)
<1>1. st \in [Stages -> StageSet]
  BY DEF StagesOK
<1>2. CASE st[0].at # 0
  <2>1. r = st
    BY <1>2 DEF EndOperation
  <2> QED
    BY <1>2, <2>1 DEF QueuesKept
<1>3. CASE st[0].at = 0
  <2>1. r = StartFlush(st, 0)
    BY <1>3 DEF EndOperation
  <2>2. /\ r[0].queue = <<>> /\ r[0].at = IF st[0].queue = <<>> THEN 0 ELSE 1
        /\ \A t \in Stages \ {0} : r[t] = st[t]
        /\ QueuesKept(st, r)
    BY <1>1, <2>1, StartFlushShape
  <2> QED
    BY <1>3, <2>2
<1> QED
  BY <1>2, <1>3

\* An operation that no observer answers leaves the flush where it is.
LEMMA QuietOperation ==
    ASSUME 0 \in Stages, NEW st, StagesOK(st), NEW s \in Stages, st[s].at # 0,
           st[s].queue = <<>>, st[0].queue = <<>>, \A t \in Stages \ {s} : st[t].at = 0,
           NEW r, r = EndOperation(st)
    PROVE  /\ r[s] = st[s] /\ r[s].queue = <<>> /\ r[0].queue = <<>>
           /\ \A t \in Stages \ {s} : r[t].at = 0
<1>1. /\ \A t \in Stages \ {0} : r[t] = st[t]
      /\ st[0].at # 0 => r = st
      /\ st[0].at = 0 => r[0].queue = <<>> /\ (st[0].queue = <<>> => r[0].at = 0)
  BY EndOperationShape
<1>2. CASE s = 0
  BY <1>1, <1>2, Zenon
<1>3. CASE s # 0
  BY <1>1, <1>3
<1> QED
  BY <1>2, <1>3

\* A value that is written at once is one of a component the entity has.
LEMMA WrittenOwned ==
    ASSUME NEW w, WorldOK(w), ValuesOwned(w), NEW c \in CommandSet, NEW v, v = Written(w, c)
    PROVE  ValuesOwned(v) /\ v.gen = w.gen /\ v.has = w.has
<1> DEFINE value == [w.value EXCEPT ![c.entity.id][c.id] = c.value]
<1>1. CASE WritesAtOnce(w, c)
  <2>1. v = [w EXCEPT !.value = value]
    BY <1>1, WorldFacts DEF Written, WorldSet
  <2>2. v.value = value /\ v.gen = w.gen /\ v.has = w.has
    BY <2>1, WorldFacts DEF WorldSet
  <2>3. c.id \in w.has[c.entity.id]
    BY <1>1 DEF WritesAtOnce
  <2>4. ASSUME NEW id \in Ids, NEW x \in Components, x \notin w.has[id]
        PROVE  value[id][x] = w.value[id][x]
    BY <2>3, <2>4, WorldFacts
  <2> QED
    BY <2>2, <2>4 DEF ValuesOwned
<1>2. CASE ~WritesAtOnce(w, c)
  BY <1>2 DEF Written
<1> QED
  BY <1>1, <1>2

\* What comes of an operation: where no observer answers, it is what the operation
\* leads to.
LEMMA OutcomesShape ==
    ASSUME 0 \in Stages, WorldOK(world), NEW w, WorldOK(w), ValuesOwned(w), NEW st, StagesOK(st),
           NEW events, \A ev \in events : ev.entity \in Handles, reacted \in Nat,
           NEW o \in Outcomes(w, st, events)
    PROVE  /\ ValuesOwned(o.world) /\ o.world.gen = w.gen /\ o.reacted \in Nat
           /\ o.reacted = reacted => o.world = w /\ o.stage = st
<1> DEFINE Seen(ev) == IF ev.on = "OnRemove" THEN world ELSE w
           Answered(x) == x \in events \X Reactions /\ Answers(x[2], x[1], Seen(x[1]))
           Outcome(x) == LET c == Answer(x[2], x[1], Seen(x[1]))
                         IN  [world |-> Written(w, c), stage |-> Put(st, 0, Seen(x[1]), c),
                              reacted |-> reacted + 1]
<1>1. \/ o = [world |-> w, stage |-> st, reacted |-> reacted]
      \/ \E x : Answered(x) /\ o = Outcome(x)
  BY DEF Outcomes
<1>2. CASE o = [world |-> w, stage |-> st, reacted |-> reacted]
  BY <1>2
<1>3. ASSUME NEW x, Answered(x), o = Outcome(x)
      PROVE  /\ ValuesOwned(o.world) /\ o.world.gen = w.gen /\ o.reacted \in Nat
             /\ o.reacted # reacted
  <2> DEFINE seen == Seen(x[1])  c == Answer(x[2], x[1], seen)
  <2>1. x[1].entity \in Handles /\ x[2] \in Reactions /\ Answers(x[2], x[1], seen) /\ WorldOK(seen)
    BY <1>3
  <2>2. o.world = Written(w, c) /\ o.reacted = reacted + 1
    BY <1>3
  <2> HIDE DEF seen
  <2>3. NewCommand(c)
    BY <2>1, AnswerOK
  <2> HIDE DEF c
  <2>4. ValuesOwned(o.world) /\ o.world.gen = w.gen
    BY <2>2, <2>3, WrittenOwned DEF NewCommand
  <2> QED
    BY <2>2, <2>4
<1> HIDE DEF Answered, Outcome
<1> QED
  BY <1>1, <1>2, <1>3

LEMMA OperateShape ==
    ASSUME 0 \in Stages, WorldOK(world), NEW w, WorldOK(w), ValuesOwned(w), NEW st, StagesOK(st),
           NEW events, \A ev \in events : ev.entity \in Handles, reacted \in Nat,
           Operate(w, st, events)
    PROVE  /\ ValuesOwned(world') /\ world'.gen = w.gen /\ reacted' \in Nat
           /\ QueuesKept(st, stage')
           /\ reacted' = reacted => world' = w /\ stage' = EndOperation(st)
<1>1. PICK o \in Outcomes(w, st, events) :
         world' = o.world /\ stage' = EndOperation(o.stage) /\ reacted' = o.reacted
  BY DEF Operate
<1>2. /\ ValuesOwned(o.world) /\ o.world.gen = w.gen /\ o.reacted \in Nat
      /\ o.reacted = reacted => o.world = w /\ o.stage = st
  BY OutcomesShape
<1>3. /\ StagesOK(o.stage)
      /\ \A s \in Stages \ {0} : o.stage[s] = st[s]
      /\ o.stage[0].at = st[0].at
  BY OutcomesOK
<1> DEFINE r == EndOperation(o.stage)
<1>4. /\ \A t \in Stages \ {0} : r[t] = o.stage[t]
      /\ o.stage[0].at # 0 => r = o.stage
      /\ o.stage[0].at = 0 => r[0].queue = <<>>
  BY <1>3, EndOperationShape
<1> HIDE DEF r
<1>5. QueuesKept(st, r)
  BY <1>3, <1>4 DEF QueuesKept
<1> QED
  BY <1>1, <1>2, <1>5 DEF r

\* What the invariant says of the state.
LEMMA FInvFacts ==
    ASSUME FInv
    PROVE  /\ IInv /\ ValuesOwned(world) /\ reacted \in Nat /\ QueuesSound(world, stage)
           /\ WritesSound(world, stage, bypassed)
           /\ expected # NoWorld => WorldOK(expected) /\ FlushSound(world, stage, expected)
           /\ 0 \in Stages /\ WorldOK(world) /\ StagesOK(stage) /\ stage \in [Stages -> StageSet]
  BY InvFacts DEF FInv, FlushSound, StagesOK

\* Stages that differ in their counts of nested defers only.
SameQueues(st, r) ==
    \A s \in Stages :
        /\ r[s].queue = st[s].queue /\ r[s].entries = st[s].entries
        /\ r[s].flushed = st[s].flushed /\ r[s].at = st[s].at /\ r[s].phase = st[s].phase

LEMMA DeferSame ==
    ASSUME NEW st \in [Stages -> StageSet], NEW s \in Stages, NEW n,
           NEW r, r = [st EXCEPT ![s].defer = n]
    PROVE  SameQueues(st, r)
<1> DEFINE x == st[s]  y == [x EXCEPT !.defer = n]
<1>1. x \in StageSet
  OBVIOUS
<1>2. r = [st EXCEPT ![s] = y]
  OBVIOUS
<1>3. /\ y.queue = x.queue /\ y.entries = x.entries
      /\ y.flushed = x.flushed /\ y.at = x.at /\ y.phase = x.phase
  BY <1>1 DEF StageSet
<1> HIDE DEF y
<1>4. r[s] = y /\ \A t \in Stages \ {s} : r[t] = st[t]
  BY <1>2
<1> QED
  BY <1>3, <1>4 DEF SameQueues

\* The counts of nested defers are of no concern to a flush.
LEMMA QuietKeeps ==
    ASSUME FInv, IInv', UNCHANGED <<world, stageCount, reacted, expected, bypassed>>,
           SameQueues(stage, stage')
    PROVE  FInv'
<1>1. QueuesSound(world', stage') /\ WritesSound(world', stage', bypassed')
  BY FInvFacts DEF QueuesSound, WritesSound, SameQueues
<1>2. ASSUME expected' # NoWorld PROVE FlushSound(world', stage', expected')
  <2>1. FlushSound(world, stage, expected) /\ 0 \in Stages
    BY <1>2, FInvFacts
  <2>2. ASSUME NEW s \in Stages, stage'[s].at # 0
        PROVE  FlushAt(world, stage', s, expected)
    <3>1. FlushAt(world, stage, s, expected)
      BY <2>1, <2>2 DEF FlushSound, SameQueues
    <3>2. /\ ViewWorld(world, stage'[s]) = ViewWorld(world, stage[s])
          /\ ViewQueue(world, stage'[s]) = ViewQueue(world, stage[s])
      BY DEF SameQueues, ViewWorld, ViewQueue
    <3> QED
      BY <2>1, <3>1, <3>2 DEF FlushAt, SameQueues
  <2>3. (\A s \in Stages : stage'[s].at = 0) => Reached(world, expected)
    BY <2>1 DEF FlushSound, SameQueues
  <2>4. FlushSound(world, stage', expected)
    BY <2>1, <2>2, <2>3 DEF FlushSound
  <2> QED
    BY <2>4
<1> QED
  BY <1>1, <1>2, FInvFacts, FlushKeptByParts

\* A flush begins with a queue whose commands lead to the outcome.
LEMMA FlushBegins ==
    ASSUME NEW w, WorldOK(w), NEW q \in Seq(CommandSet), NEW entries \in [Ids -> Entries],
           Chained(q, entries), QueueSound(w, q, entries),
           NEW z, Leads(w, q, 1, z)
    PROVE  FlushOK(w, q, 1, "visit", z)
<1>1. ASSUME NEW j \in 1 .. Len(q)
      PROVE  /\ Alive(w, q[j].entity) => LinkAt(q, j)
             /\ q[j].kind = "Clear" => q[j].id \notin Pairs
  <2>1. Alive(w, q[j].entity) => LinkAt(q, j)
    BY SoundLinks
  <2> QED
    BY <2>1 DEF QueueSound, QueuedOK
<1>2. Passed(w, q, 1, "visit")
  BY DEF Passed, Touched, Same
<1> QED
  BY <1>1, <1>2 DEF FlushOK

\* flecs_defer_end: a flush starts.
LEMMA FlushStarts ==
    ASSUME FInv, IInv', NEW s \in Stages, ~Flushing(stage), s = 0 \/ stage[0].queue = <<>>,
           NEW st \in [Stages -> StageSet], SameQueues(stage, st), StagesOK(stage'),
           stage' = StartFlush(st, s), expected' = Expected(stage[s].queue), bypassed' = FALSE,
           UNCHANGED <<world, stageCount, reacted>>
    PROVE  FInv'
<1> DEFINE q == stage[s].queue  entries == stage[s].entries  r == stage'  z == expected'
<1>1. /\ 0 \in Stages /\ WorldOK(world) /\ StagesOK(stage) /\ ValuesOwned(world)
      /\ QueuesSound(world, stage) /\ reacted \in Nat /\ WritesSound(world, stage, bypassed)
      /\ \A t \in Stages : stage[t].at = 0
  BY FInvFacts DEF Flushing
<1>2. /\ r[s].queue = <<>> /\ r[s].flushed = st[s].queue /\ r[s].phase = "visit"
      /\ r[s].at = IF st[s].queue = <<>> THEN 0 ELSE 1
      /\ \A t \in Stages \ {s} : r[t] = st[t]
      /\ QueuesKept(st, r)
  BY StartFlushShape
<1>3. /\ r[s].queue = <<>> /\ r[s].flushed = q /\ r[s].phase = "visit"
      /\ r[s].at = IF q = <<>> THEN 0 ELSE 1
      /\ \A t \in Stages \ {s} : r[t].at = 0
      /\ r[0].queue = <<>>
      /\ QueuesKept(stage, r)
  BY <1>1, <1>2 DEF SameQueues, QueuesKept
<1>4. stage[s] \in StageSet /\ Chained(q, entries) /\ QueueSound(world, q, entries)
  BY <1>1 DEF StagesOK, StageOK, QueueOK, QueuesSound
<1>5. q \in Seq(CommandSet) /\ entries \in [Ids -> Entries] /\ QueuedOK(q)
  BY <1>4, StageFacts, Zenon DEF QueueSound
<1>6. QueuesSound(world, r)
  <2>1. \A id \in Ids : world.gen[id] <= world.gen[id]
    BY <1>1, SameGens
  <2> QED
    BY <1>1, <1>3, <2>1, QueuesKeptSound
<1>7. ASSUME z # NoWorld PROVE FlushSound(world, r, z)
  <2>1. ~Tangled(q) /\ ~Overwritten(q) /\ ~(bypassed /\ Lost(q)) /\ z = Sequential(world, q)
    BY <1>7 DEF Expected
  <2>2. ~bypassed => ~Lost(q)
    <3>1. DOMAIN q = 1 .. Len(q)
      BY <1>5
    <3>2. ~bypassed => WriteSound(world, q)
      BY <1>1 DEF WritesSound
    <3>3. \A j : IsLastSet(q, j) => q[j].kind = "AddModified"
      BY DEF IsLastSet
    <3> HIDE DEF q
    <3> QED
      BY <3>1, <3>2, <3>3 DEF WriteSound, Lost
  <2> HIDE DEF q, z, entries, r
  <2>3. WorldOK(z) /\ Leads(world, q, 1, z)
    BY <1>1, <1>5, <2>1, <2>2, SequentialLeads
  <2>4. FlushOK(world, q, 1, "visit", z)
    BY <1>1, <1>4, <1>5, <2>3, FlushBegins
  <2>5. ASSUME NEW t \in Stages, r[t].at # 0 PROVE FlushAt(world, r, t, z)
    <3>1. t = s
      BY <1>3, <2>5
    <3>2. ViewWorld(world, r[s]) = world /\ ViewQueue(world, r[s]) = q /\ r[s].at = 1
      BY <1>3, <2>5, <3>1 DEF ViewWorld, ViewQueue
    <3> QED
      BY <1>3, <2>4, <3>1, <3>2 DEF FlushAt
  <2>6. ASSUME \A t \in Stages : r[t].at = 0 PROVE Reached(world, z)
    <3>1. q = <<>>
      BY <1>3, <2>6
    <3>2. Len(q) \in Nat /\ 1 > Len(q) /\ 1 \in Nat
      BY <3>1
    <3> QED
      BY <1>1, <2>3, <3>2, LeadsReached
  <2> QED
    BY <2>3, <2>5, <2>6 DEF FlushSound
<1>8. WritesSound(world, r, FALSE)
  <2>1. stageCount = 1 => s = 0
    BY DEF Stages
  <2>2. \A t \in Stages \ {s} : r[t].queue = stage[t].queue
    BY <1>2 DEF SameQueues
  <2> HIDE DEF r
  <2>3. ASSUME NEW t \in Stages, NEW j \in 1 .. Len(r[t].queue)
        PROVE  stageCount # 1 /\ r[t].queue[j].kind # "AddModified"
    <3>1. r[t].queue # <<>>
      OBVIOUS
    <3>2. t # s /\ r[t].queue = stage[t].queue
      BY <1>3, <2>2, <3>1
    <3>3. stageCount # 1
      BY <2>1, <3>2 DEF Stages
    <3> QED
      BY <1>1, <3>2, <3>3 DEF WritesSound
  <2> QED
    BY <2>3 DEF WritesSound, WriteSound
<1> QED
  BY <1>1, <1>6, <1>7, <1>8, FlushKeptByParts, Zenon

\* flecs_defer_end on a stage that is not being flushed.
LEMMA DeferEndOfFlushes ==
    ASSUME FInv, IInv', NEW s \in Stages, ~Flushing(stage), s = 0 \/ stage[0].queue = <<>>,
           stage[s].defer > 0, DeferEndOf(s), UNCHANGED <<world, stageCount, reacted>>
    PROVE  FInv'
<1> DEFINE n == stage[s].defer - 1  st == [stage EXCEPT ![s].defer = n]
<1>1. IInv /\ StagesOK(stage) /\ stage \in [Stages -> StageSet] /\ stage[s].at = 0
  BY FInvFacts DEF Flushing
<1>2. stage[s] \in StageSet /\ n \in -MaxDepth .. MaxDepth
  BY <1>1, BoundsAssumption DEF StageSet
<1>3. st = [stage EXCEPT ![s].defer = @ - 1]
  BY <1>1
<1> HIDE DEF n
<1>4. StagesOK(st) /\ SameQueues(stage, st)
  BY <1>1, <1>2, DeferFacts, DeferSame, Zenon
<1> HIDE DEF st
<1>5. st \in [Stages -> StageSet]
  BY <1>4 DEF StagesOK
<1>6. CASE EndsDefer(s)
  <2>1. stage' = StartFlush(st, s) /\ expected' = Expected(stage[s].queue) /\ bypassed' = FALSE
    BY <1>3, <1>6 DEF DeferEndOf
  <2>2. StagesOK(stage')
    BY <1>1, DeferEndOfOK
  <2> QED
    BY <1>4, <1>5, <2>1, <2>2, FlushStarts, Zenon
<1>7. CASE ~EndsDefer(s)
  <2>1. stage' = st /\ expected' = expected /\ bypassed' = bypassed
    BY <1>3, <1>7 DEF DeferEndOf
  <2> QED
    BY <1>4, <2>1, QuietKeeps
<1> QED
  BY <1>6, <1>7

-----------------------------------------------------------------------------
(* Game code and flushes                                                     *)

LEMMA DeferBeginFlushes ==
    ASSUME FInv, DeferBegin
    PROVE  FInv'
<1> DEFINE n == stage[0].defer + 1
<1>1. IInv /\ 0 \in Stages /\ stage \in [Stages -> StageSet]
  BY FInvFacts
<1>2. /\ stage' = [stage EXCEPT ![0].defer = n]
      /\ UNCHANGED <<world, stageCount, reacted, expected, bypassed>>
  BY <1>1 DEF DeferBegin
<1> HIDE DEF n
<1>3. SameQueues(stage, stage')
  BY <1>1, <1>2, DeferSame, Zenon
<1> QED
  BY <1>1, <1>2, <1>3, DeferBeginKeeps, QuietKeeps

LEMMA DeferSuspendFlushes ==
    ASSUME FInv, DeferSuspend
    PROVE  FInv'
<1> DEFINE n == -stage[0].defer
<1>1. IInv /\ 0 \in Stages /\ stage \in [Stages -> StageSet]
  BY FInvFacts
<1>2. /\ stage' = [stage EXCEPT ![0].defer = n]
      /\ UNCHANGED <<world, stageCount, reacted, expected, bypassed>>
  BY <1>1 DEF DeferSuspend
<1> HIDE DEF n
<1>3. SameQueues(stage, stage')
  BY <1>1, <1>2, DeferSame, Zenon
<1> QED
  BY <1>1, <1>2, <1>3, DeferSuspendKeeps, QuietKeeps

LEMMA ReadonlyBeginFlushes ==
    ASSUME FInv, ReadonlyBegin
    PROVE  FInv'
<1>1. IInv /\ stage \in [Stages -> StageSet]
  BY FInvFacts
<1>2. /\ stage' = [s \in Stages |-> [stage[s] EXCEPT !.defer = @ + 1]]
      /\ UNCHANGED <<world, stageCount, reacted, expected, bypassed>>
  BY DEF ReadonlyBegin
<1>3. SameQueues(stage, stage')
  <2> SUFFICES ASSUME NEW s \in Stages
               PROVE  /\ stage'[s].queue = stage[s].queue /\ stage'[s].entries = stage[s].entries
                      /\ stage'[s].flushed = stage[s].flushed /\ stage'[s].at = stage[s].at
                      /\ stage'[s].phase = stage[s].phase
    BY DEF SameQueues
  <2> DEFINE x == stage[s]  n == x.defer + 1
  <2>1. x \in StageSet /\ stage'[s] = [x EXCEPT !.defer = n]
    BY <1>1, <1>2
  <2> HIDE DEF x, n
  <2>2. /\ stage'[s].queue = x.queue /\ stage'[s].entries = x.entries
        /\ stage'[s].flushed = x.flushed /\ stage'[s].at = x.at
        /\ stage'[s].phase = x.phase
    BY <2>1 DEF StageSet
  <2> QED
    BY <2>2 DEF x
<1> QED
  BY <1>1, <1>2, <1>3, ReadonlyBeginKeeps, QuietKeeps

LEMMA ReadonlyEndFlushes ==
    ASSUME FInv, ReadonlyEnd
    PROVE  FInv'
<1>1. IInv
  BY FInvFacts
<1>2. UNCHANGED <<world, stageCount, stage, reacted, expected, bypassed>>
  BY DEF ReadonlyEnd
<1>3. SameQueues(stage, stage')
  BY <1>2 DEF SameQueues
<1> QED
  BY <1>1, <1>2, <1>3, ReadonlyEndKeeps, QuietKeeps

LEMMA DeferEndFlushes ==
    ASSUME FInv, DeferEnd
    PROVE  FInv'
<1>1. IInv /\ 0 \in Stages
  BY FInvFacts
<1>2. /\ ~Flushing(stage) /\ stage[0].defer > 0 /\ DeferEndOf(0)
      /\ UNCHANGED <<world, stageCount, reacted>>
  BY DEF DeferEnd, Idle
<1> QED
  BY <1>1, <1>2, DeferEndKeeps, DeferEndOfFlushes

LEMMA MergeStageFlushes ==
    ASSUME FInv, MergeStage
    PROVE  FInv'
<1>1. /\ IInv /\ 0 \in Stages /\ stageCount \in Nat /\ merging \in 0 .. stageCount
      /\ DefersSound /\ Emptied(stage[0])
  BY FInvFacts, InvFacts
<1>2. /\ merging < stageCount /\ ~Flushing(stage) /\ DeferEndOf(merging)
      /\ UNCHANGED <<world, stageCount, reacted>>
  BY DEF MergeStage
<1>3. merging \in Stages /\ ~readonly
  BY <1>1, <1>2 DEF Stages, DefersSound
<1>4. stage[merging].defer > 0
  BY <1>1, <1>3 DEF DefersSound
<1>5. merging = 0 \/ stage[0].queue = <<>>
  <2>1. merging # 0 => stage[0].defer = 0
    BY <1>1, <1>2, <1>3 DEF DefersSound
  <2>2. stage[0].at = 0
    BY <1>1, <1>2 DEF Flushing
  <2> QED
    BY <1>1, <2>1, <2>2 DEF Emptied
<1> QED
  BY <1>1, <1>2, <1>3, <1>4, <1>5, MergeStageKeeps, DeferEndOfFlushes

\* A command never takes a generation back.
LEMMA DoGens ==
    ASSUME NEW w, WorldOK(w), NEW c \in CommandSet, NEW v, v = Do(w, c)
    PROVE  \A id \in Ids : w.gen[id] <= v.gen[id]
<1>1. v.gen = w.gen => \A id \in Ids : w.gen[id] <= v.gen[id]
  BY SameGens
<1>2. CASE ~Alive(w, c.entity)
  BY <1>1, <1>2, Zenon DEF Do
<1>3. CASE Alive(w, c.entity) /\ (c.kind = "Delete" \/ (c.kind = "Add" /\ DeletesEntity(w, c.id)))
  <2>1. v = Delete(w, c.entity)
    BY <1>3 DEF Do, Apply, DeletesEntity
  <2> DEFINE doomed == Doomed(w, c.entity.id)
  <2>2. v = Without(w, doomed, doomed)
    BY <2>1 DEF Delete
  <2> HIDE DEF doomed
  <2>3. ASSUME NEW id \in Ids PROVE v.gen[id] \in {w.gen[id], w.gen[id] + 1} /\ w.gen[id] \in Int
    <3>1. \A n \in 0 .. MaxGen + 1 : n \in Int
      BY IdsAssumption
    <3> QED
      BY <2>2, <3>1, WithoutShape, WorldFacts
  <2>4. \A n \in Int : n <= n /\ n <= n + 1
    OBVIOUS
  <2> QED
    BY <2>3, <2>4
<1>4. CASE Alive(w, c.entity) /\ c.kind # "Delete" /\ ~(c.kind = "Add" /\ DeletesEntity(w, c.id))
  <2>1. v = Apply(w, c)
    BY <1>4 DEF Do
  <2>2. v.gen = w.gen
    BY <1>4, <2>1, ApplyShape
  <2> QED
    BY <1>1, <2>2, Zenon
<1> QED
  BY <1>2, <1>3, <1>4, Zenon

\* Game code queues what a queue takes.
LEMMA CommandsOfQueued ==
    ASSUME NEW c \in CommandsOf(LivingEntities)
    PROVE  Queued(c) /\ c.kind = c.op
<1>1. PICK e, op, id, v :
         /\ c = Command(e, op, id, v)
         /\ op \in {"Add", "Remove", "Set", "Clear", "Delete"}
         /\ op = "Clear" => id = NoId
  BY DEF CommandsOf
<1>2. c = [op |-> op, kind |-> op, entity |-> e, id |-> id, value |-> v, next |-> 0, entry |-> FALSE]
  BY <1>1 DEF Command
<1>3. c.op = op /\ c.kind = op /\ c.id = id
  BY <1>2
<1>4. NoId \notin Pairs
  BY NoIdAssumption DEF AllIds
<1> QED
  BY <1>1, <1>3, <1>4 DEF Queued

\* A command that is queued on a stage.
AsPut(w, command) == IF WritesAtOnce(w, command) THEN [command EXCEPT !.kind = "AddModified"] ELSE command

LEMMA AsPutFacts ==
    ASSUME NEW w, NEW command, NewCommand(command), Queued(command), command.kind = command.op,
           NEW c, c = AsPut(w, command)
    PROVE  /\ c \in CommandSet /\ Queued(c)
           /\ c.entity = command.entity /\ c.op = command.op
           /\ c.id = command.id /\ c.value = command.value
           /\ c.kind = "AddModified" <=> WritesAtOnce(w, command)
<1>1. CASE WritesAtOnce(w, command)
  <2>1. /\ command \in CommandSet /\ command.op = "Set" /\ command.id \in Components
        /\ c = [command EXCEPT !.kind = "AddModified"]
    BY <1>1 DEF WritesAtOnce, NewCommand, AsPut
  <2>2. /\ c.kind = "AddModified" /\ c.op = command.op /\ c.entity = command.entity
        /\ c.id = command.id /\ c.value = command.value /\ c \in CommandSet
    BY <2>1 DEF CommandSet, Kinds
  <2> QED
    BY <1>1, <2>1, <2>2 DEF Queued
<1>2. CASE ~WritesAtOnce(w, command)
  <2>1. c = command /\ c.kind # "AddModified"
    BY <1>2 DEF AsPut, Queued
  <2> QED
    BY <1>2, <2>1 DEF NewCommand
<1> QED
  BY <1>1, <1>2

IsPut(st, s, c, r) ==
    /\ Links(st[s].queue, st[s].entries, c, r[s].queue, r[s].entries)
    /\ r[s].at = st[s].at
    /\ \A t \in Stages \ {s} : r[t] = st[t]

LEMMA PutShape ==
    ASSUME NEW st \in [Stages -> StageSet], NEW s \in Stages, NEW w, NEW command,
           NewCommand(command), Queued(command), command.kind = command.op,
           NEW r, r = Put(st, s, w, command)
    PROVE  IsPut(st, s, AsPut(w, command), r)
<1> DEFINE x == st[s]  c == AsPut(w, command)  i == c.entity.id
           q == Linked(x.queue, x.entries[i], c)
           entries == [x.entries EXCEPT ![i] = LinkedEntry(x.queue, x.entries[i], c)]
           y == [x EXCEPT !.queue = q, !.entries = entries]
<1>1. x \in StageSet
  OBVIOUS
<1>2. c.entity = command.entity
  BY AsPutFacts
<1>3. r = [st EXCEPT ![s] = y]
  <2>1. r = [st EXCEPT ![s].queue = q, ![s].entries[i] = LinkedEntry(x.queue, x.entries[i], c)]
    BY <1>2 DEF Put, AsPut
  <2> QED
    BY <2>1, <1>1, Zenon DEF StageSet
<1>4. y.queue = q /\ y.entries = entries /\ y.at = x.at
  BY <1>1 DEF StageSet
<1> HIDE DEF q, entries, y
<1>5. r[s] = y /\ \A t \in Stages \ {s} : r[t] = st[t]
  BY <1>3
<1> HIDE DEF c
<1>6. IsPut(st, s, c, r)
  BY <1>4, <1>5 DEF q, entries, IsPut, Links
<1> QED
  BY <1>6 DEF c

\* It keeps the queue sound.
LEMMA PutSound ==
    ASSUME NEW st \in [Stages -> StageSet], NEW s \in Stages,
           NEW w, QueueSound(w, st[s].queue, st[s].entries), Chained(st[s].queue, st[s].entries),
           NEW command, NewCommand(command), Queued(command), command.kind = command.op,
           Alive(w, command.entity), NEW r, r = Put(st, s, w, command)
    PROVE  QueueSound(w, r[s].queue, r[s].entries)
<1> DEFINE x == st[s]  c == AsPut(w, command)
<1>1. /\ x.queue \in Seq(CommandSet) /\ x.entries \in [Ids -> Entries]
      /\ Chained(x.queue, x.entries) /\ QueueSound(w, x.queue, x.entries)
  <2>1. x \in StageSet
    OBVIOUS
  <2> QED
    BY <2>1, StageFacts
<1>2. c \in CommandSet /\ Queued(c) /\ c.entity = command.entity
  BY AsPutFacts
<1> HIDE DEF c
<1>3. Links(x.queue, x.entries, c, r[s].queue, r[s].entries)
  BY PutShape DEF c, IsPut
<1>4. Alive(w, c.entity)
  BY <1>2
<1> HIDE DEF x
<1> QED
  BY <1>1, <1>2, <1>3, <1>4, LinkedSound, Zenon

\* A value that is written at once is there, and no other is changed.
LEMMA LinkedWrites ==
    ASSUME NEW w, WorldOK(w), NEW q \in Seq(CommandSet), NEW entries \in [Ids -> Entries],
           Chained(q, entries), WriteSound(w, q), QueuedOK(q),
           NEW command, NewCommand(command), Queued(command), command.kind = command.op,
           Alive(w, command.entity),
           NEW c, c = AsPut(w, command),
           NEW r, NEW after, Links(q, entries, c, r, after),
           NEW v, v = Written(w, command)
    PROVE  WriteSound(v, r)
<1> DEFINE L == Len(q)  e == c.entity  entry == entries[e.id]  linked == IsLinked(q, entry, c)
<1>1. /\ c \in CommandSet /\ e = command.entity /\ c.op = command.op
      /\ c.id = command.id /\ c.value = command.value
      /\ c.kind = "AddModified" <=> WritesAtOnce(w, command)
  BY AsPutFacts
<1>2. L \in Nat /\ e.id \in Ids /\ e \in Handles /\ entry \in Entries /\ Alive(w, e)
  BY <1>1 DEF CommandSet, Handles
<1>3. linked => entry.last \in 1 .. L
  <2> SUFFICES ASSUME linked PROVE ChainSound(q, entry, e.id)
    BY <1>2, ChainFacts
  <2> QED
    BY <1>2 DEF Chained, IsLinked
<1>4. LinkedShape(q, entry, c, r)
  BY <1>1, <1>2, <1>3, LinkedHasShape DEF Links
<1>5. /\ Len(q) = L /\ Len(r) = L + 1
      /\ \A j \in 1 .. L : /\ r[j].entity = q[j].entity /\ r[j].op = q[j].op
                           /\ r[j].kind = q[j].kind /\ r[j].id = q[j].id /\ r[j].value = q[j].value
      /\ r[L + 1].entity = e /\ r[L + 1].op = c.op /\ r[L + 1].kind = c.kind
      /\ r[L + 1].id = c.id /\ r[L + 1].value = c.value
  BY <1>4, Zenon DEF LinkedShape
<1>6. v.alive = w.alive /\ v.gen = w.gen
  BY <1>1, WrittenOK DEF NewCommand
<1>7. \A d : Alive(v, d) <=> Alive(w, d)
  BY <1>6 DEF Alive
<1>8. IF WritesAtOnce(w, command)
      THEN /\ command.op = "Set" /\ command.id \in Components
           /\ v.value = [w.value EXCEPT ![e.id][c.id] = c.value]
      ELSE v = w
  <2>1. CASE WritesAtOnce(w, command)
    <3> DEFINE value == [w.value EXCEPT ![e.id][c.id] = c.value]
    <3>1. v = [w EXCEPT !.value = value]
      BY <1>1, <2>1, WorldFacts DEF Written, WorldSet
    <3>2. v.value = value
      BY <3>1, WorldFacts DEF WorldSet
    <3> QED
      BY <2>1, <3>2 DEF WritesAtOnce, NewCommand
  <2>2. CASE ~WritesAtOnce(w, command)
    BY <2>2 DEF Written
  <2> QED
    BY <2>1, <2>2
<1> HIDE DEF entry, linked, e, L
<1> SUFFICES ASSUME NEW j \in 1 .. Len(r), r[j].kind = "AddModified"
             PROVE  /\ Alive(v, r[j].entity)
                    /\ IsLastSet(r, j) => v.value[r[j].entity.id][r[j].id] = r[j].value
  BY Zenon DEF WriteSound
<1>9. CASE j = L + 1
  <2>1. r[j].entity = e /\ r[j].id = c.id /\ r[j].value = c.value /\ WritesAtOnce(w, command)
    BY <1>1, <1>5, <1>9
  <2>2. c.id \in Components /\ v.value[e.id][c.id] = c.value
    BY <1>1, <1>2, <1>8, <2>1, WorldFacts
  <2> QED
    BY <1>2, <1>7, <2>1, <2>2
<1>10. CASE j # L + 1
  <2>1. j \in 1 .. L
    BY <1>2, <1>5, <1>10
  <2>2. /\ r[j].entity = q[j].entity /\ r[j].id = q[j].id /\ r[j].value = q[j].value
        /\ r[j].op = q[j].op /\ q[j].kind = "AddModified" /\ q[j] \in CommandSet
    BY <1>5, <2>1
  <2>3. Alive(w, q[j].entity) /\ (IsLastSet(q, j) => w.value[q[j].entity.id][q[j].id] = q[j].value)
    BY <1>5, <2>1, <2>2, Zenon DEF WriteSound
  <2>4. ASSUME IsLastSet(r, j) PROVE v.value[q[j].entity.id][q[j].id] = q[j].value
    <3>1. \A k \in j + 1 .. L + 1 : ~SetsSame(r[k], r[j])
      BY <1>5, <2>4 DEF IsLastSet
    <3>2. IsLastSet(q, j)
      <4>1. \A k \in j + 1 .. L : k \in j + 1 .. L + 1 /\ k \in 1 .. L
        BY <1>2, <2>1
      <4>2. ASSUME NEW k \in j + 1 .. L PROVE ~SetsSame(q[k], q[j])
        <5>1. k \in 1 .. L /\ ~SetsSame(r[k], r[j])
          BY <3>1, <4>1
        <5>2. r[k].op = q[k].op /\ r[k].entity = q[k].entity /\ r[k].id = q[k].id
          BY <1>5, <5>1
        <5> QED
          BY <2>2, <5>1, <5>2 DEF SetsSame
      <4> QED
        BY <1>5, <2>2, <4>2 DEF IsLastSet
    <3>3. CASE WritesAtOnce(w, command)
      <4>1. L + 1 \in j + 1 .. L + 1
        BY <1>2, <2>1
      <4>2. ~SetsSame(r[L + 1], r[j])
        BY <3>1, <4>1
      <4>3. q[j].op = "Set"
        BY <1>5, <2>1, <2>2 DEF QueuedOK
      <4>4. e # q[j].entity \/ c.id # q[j].id
        <5>1. r[L + 1].op = "Set" /\ r[L + 1].entity = e /\ r[L + 1].id = c.id
          BY <1>1, <1>5, <1>8, <3>3
        <5>2. r[j].op = "Set" /\ r[j].entity = q[j].entity /\ r[j].id = q[j].id
          BY <2>2, <4>3
        <5> QED
          BY <4>2, <5>1, <5>2 DEF SetsSame
      <4>5. e = q[j].entity <=> e.id = q[j].entity.id
        <5>1. q[j].entity \in Handles
          BY <2>2 DEF CommandSet
        <5>2. e.gen = w.gen[e.id] /\ q[j].entity.gen = w.gen[q[j].entity.id]
          BY <1>2, <2>3 DEF Alive
        <5> QED
          BY <1>2, <5>1, <5>2 DEF Handles
      <4>6. q[j].entity.id \in Ids /\ q[j].id \in Components
        BY <2>2 DEF CommandSet, Handles
      <4>7. v.value[q[j].entity.id][q[j].id] = w.value[q[j].entity.id][q[j].id]
        BY <1>2, <1>8, <3>3, <4>4, <4>5, <4>6, WorldFacts
      <4> QED
        BY <2>3, <3>2, <4>7
    <3>4. CASE ~WritesAtOnce(w, command)
      BY <1>8, <2>3, <3>2, <3>4
    <3> QED
      BY <3>3, <3>4
  <2> QED
    BY <1>7, <2>2, <2>3, <2>4
<1> QED
  BY <1>9, <1>10, Zenon

\* An operation on a deferred stage.
LEMMA DeferFlushes ==
    ASSUME FInv, NEW c \in CommandsOf(LivingEntities), NEW s \in Stages, Defer(s, c)
    PROVE  FInv'
<1>1. /\ IInv /\ WorldOK(world) /\ ValuesOwned(world) /\ reacted \in Nat
      /\ QueuesSound(world, stage) /\ StagesOK(stage) /\ stage \in [Stages -> StageSet]
      /\ WritesSound(world, stage, bypassed)
  BY FInvFacts
<1>2. NewCommand(c) /\ c \in CommandSet /\ Alive(world, c.entity) /\ Queued(c) /\ c.kind = c.op
  BY <1>1, CommandsOfFacts, CommandsOfQueued DEF NewCommand
<1>3. /\ Idle /\ stage' = Put(stage, s, world, c) /\ world' = Written(world, c)
      /\ stageCount' = stageCount /\ reacted' = reacted /\ expected' = NoWorld
      /\ bypassed' = bypassed
  BY DEF Defer
<1>4. \A t \in Stages : stage[t].at = 0
  BY <1>1, <1>3, IdleFacts DEF Idle
<1>5. ValuesOwned(world') /\ world'.gen = world.gen
  BY <1>1, <1>2, <1>3, WrittenOwned
<1>6. \A id \in Ids : world.gen[id] <= world'.gen[id]
  BY <1>1, <1>5, SameGens
<1>7. /\ QueueSound(world, stage[s].queue, stage[s].entries)
      /\ Chained(stage[s].queue, stage[s].entries)
  BY <1>1, <1>4 DEF QueuesSound, StagesOK, StageOK, QueueOK
<1>8. /\ QueueSound(world, stage'[s].queue, stage'[s].entries)
      /\ stage'[s].at = stage[s].at
      /\ \A t \in Stages \ {s} : stage'[t] = stage[t]
  <2>1. QueueSound(world, stage'[s].queue, stage'[s].entries)
    BY <1>1, <1>2, <1>3, <1>7, PutSound
  <2>2. IsPut(stage, s, AsPut(world, c), stage')
    BY <1>1, <1>2, <1>3, PutShape
  <2> QED
    BY <2>1, <2>2 DEF IsPut
<1>9. QueuesSound(world, stage')
  BY <1>1, <1>8 DEF QueuesSound
<1>10. IInv'
  BY <1>1, DeferKeeps
<1>11. WorldOK(world') /\ StagesOK(stage')
  <2>1. WorldOK(world')
    BY <1>1, <1>2, <1>3, WrittenOK
  <2>2. StageOK(stage[s])
    BY <1>1 DEF StagesOK
  <2>3. /\ stage' \in [Stages -> StageSet] /\ StageOK(stage'[s])
        /\ \A t \in Stages \ {s} : stage'[t] = stage[t]
    BY <1>1, <1>2, <1>3, <2>2, PutFacts
  <2> QED
    BY <1>1, <2>1, <2>3 DEF StagesOK
<1>12. QueuesKept(stage', stage')
  BY DEF QueuesKept
<1>13. QueuesSound(world', stage')
  BY <1>1, <1>6, <1>9, <1>11, <1>12, QueuesKeptSound
<1>14. WritesSound(world', stage', bypassed')
  <2> DEFINE d == AsPut(world, c)  q == stage[s].queue  entries == stage[s].entries
             r == stage'[s].queue
  <2>1. /\ d \in CommandSet /\ d.entity = c.entity
        /\ d.kind = "AddModified" <=> WritesAtOnce(world, c)
    BY <1>2, AsPutFacts
  <2>2. q \in Seq(CommandSet) /\ entries \in [Ids -> Entries]
    <3>1. stage[s] \in StageSet
      BY <1>1
    <3> QED
      BY <3>1, StageFacts
  <2>3. Links(q, entries, d, r, stage'[s].entries)
    <3>1. IsPut(stage, s, d, stage')
      BY <1>1, <1>2, <1>3, PutShape
    <3> HIDE DEF d
    <3> QED
      BY <3>1 DEF IsPut
  <2>4. stageCount # 1 => r \in Seq(CommandSet) /\ \A j \in 1 .. Len(r) : r[j].kind # "AddModified"
    <3> SUFFICES ASSUME stageCount # 1
                 PROVE  r \in Seq(CommandSet) /\ \A j \in 1 .. Len(r) : r[j].kind # "AddModified"
      OBVIOUS
    <3>1. d.kind # "AddModified"
      BY <2>1 DEF WritesAtOnce
    <3>2. \A j \in 1 .. Len(q) : q[j].kind # "AddModified"
      BY <1>1, <1>4 DEF WritesSound
    <3> DEFINE entry == entries[d.entity.id]
    <3>3. entry \in Entries /\ Len(q) \in Nat /\ d.entity.id \in Ids
      BY <2>1, <2>2 DEF CommandSet, Handles
    <3>4. IsLinked(q, entry, d) => entry.last \in 1 .. Len(q)
      <4> SUFFICES ASSUME IsLinked(q, entry, d) PROVE ChainSound(q, entry, d.entity.id)
        BY <2>2, <3>3, ChainFacts
      <4> QED
        BY <1>7, <3>3 DEF Chained, IsLinked
    <3> HIDE DEF entry, d, q
    <3>5. LinkedShape(q, entry, d, r)
      BY <2>1, <2>2, <2>3, <3>3, <3>4, LinkedHasShape DEF entry, Links
    <3>6. \A j \in 1 .. Len(r) : j \in 1 .. Len(q) \/ j = Len(q) + 1
      BY <3>3, <3>5 DEF LinkedShape
    <3>7. r \in Seq(CommandSet)
      <4>1. stage'[s] \in StageSet
        BY <1>11 DEF StagesOK
      <4> QED
        BY <4>1, StageFacts
    <3> QED
      BY <3>1, <3>2, <3>5, <3>6, <3>7 DEF LinkedShape
  <2>5. ~bypassed => WriteSound(world', r)
    <3> SUFFICES ASSUME ~bypassed PROVE WriteSound(world', r)
      OBVIOUS
    <3>1. WriteSound(world, q)
      BY <1>4 , <1>1 DEF WritesSound
    <3>2. QueuedOK(q)
      BY <1>7, Zenon DEF QueueSound
    <3> HIDE DEF q, entries, r
    <3>3. Chained(q, entries)
      BY <1>7 DEF q, entries
    <3> QED
      BY <1>1, <1>2, <1>3, <2>2, <2>3, <3>1, <3>2, <3>3, LinkedWrites
  <2>6. ASSUME NEW t \in Stages \ {s}
        PROVE  /\ stageCount # 1 => \A j \in 1 .. Len(stage'[t].queue) : stage'[t].queue[j].kind # "AddModified"
               /\ ~bypassed => WriteSound(world', stage'[t].queue)
    <3>1. stage'[t] = stage[t] /\ stageCount # 1
      BY <1>8, <2>6 DEF Stages
    <3>2. \A j \in 1 .. Len(stage[t].queue) : stage[t].queue[j].kind # "AddModified"
      BY <1>1, <1>4, <3>1 DEF WritesSound
    <3> QED
      BY <3>1, <3>2 DEF WriteSound
  <2> HIDE DEF d, q, entries
  <2> QED
    BY <1>3, <2>4, <2>5, <2>6 DEF WritesSound
<1> QED
  BY <1>1, <1>3, <1>5, <1>10, <1>13, <1>14, FlushKeptByParts

\* An operation on the world.
LEMMA DirectFlushes ==
    ASSUME FInv, NEW c \in CommandsOf(LivingEntities), Direct(c)
    PROVE  FInv'
<1> DEFINE w == Apply(world, c)
<1>1. /\ IInv /\ 0 \in Stages /\ WorldOK(world) /\ ValuesOwned(world) /\ reacted \in Nat
      /\ QueuesSound(world, stage) /\ StagesOK(stage) /\ \A t \in Stages : Emptied(stage[t])
      /\ WritesSound(world, stage, bypassed)
  BY FInvFacts, InvFacts
<1>2. c \in CommandSet /\ Alive(world, c.entity)
  BY <1>1, CommandsOfFacts DEF NewCommand
<1>3. w = Do(world, c)
  BY <1>2 DEF Do
<1>4. Operate(w, stage, EventsOf(CleanedUp(c), c, w)) /\ stageCount' = stageCount /\ expected' = NoWorld
  BY DEF Direct
<1> HIDE DEF w
<1>5. WorldOK(w) /\ ValuesOwned(w) /\ \A id \in Ids : world.gen[id] <= w.gen[id]
  <2>1. WorldOK(w)
    BY <1>1, <1>2, <1>3, ApplyOK DEF Do
  <2> QED
    BY <1>1, <1>2, <1>3, <2>1, DoOwned, DoGens
<1>6. \A ev \in EventsOf(CleanedUp(c), c, w) : ev.entity \in Handles
  BY <1>1, <1>2, <1>5, CleanedUpOK, EventsOfTyped
<1>7. /\ ValuesOwned(world') /\ world'.gen = w.gen /\ reacted' \in Nat
      /\ QueuesKept(stage, stage')
  BY <1>1, <1>4, <1>5, <1>6, OperateShape
<1>8. IInv'
  BY <1>1, DirectKeeps
<1>9. WorldOK(world') /\ StagesOK(stage')
  BY <1>1, <1>4, <1>5, <1>6, OperateOK
<1>10. QueuesSound(world', stage')
  BY <1>1, <1>5, <1>7, <1>9, QueuesKeptSound
<1>11. WritesSound(world', stage', bypassed')
  <2>1. stage[0].at # 0 \/ stage[0].queue = <<>>
    BY <1>1 DEF Direct, Emptied
  <2> QED
    BY <1>1, <1>7, <1>9, <2>1, WritesKeptSound
<1> QED
  BY <1>4, <1>7, <1>8, <1>10, <1>11, FlushKeptByParts

\* ... while deferring is suspended.
LEMMA DirectSuspendedFlushes ==
    ASSUME FInv, NEW c \in CommandsOf(LivingEntities), DirectSuspended(c)
    PROVE  FInv'
<1>1. /\ IInv /\ WorldOK(world) /\ ValuesOwned(world) /\ reacted \in Nat
      /\ QueuesSound(world, stage) /\ StagesOK(stage) /\ WritesSound(world, stage, bypassed)
  BY FInvFacts
<1>2. c \in CommandSet /\ Alive(world, c.entity)
  BY <1>1, CommandsOfFacts DEF NewCommand
<1>3. /\ world' = Apply(world, c) /\ UNCHANGED <<stageCount, stage, reacted>> /\ expected' = NoWorld
      /\ bypassed' = (stage[0].queue # <<>>)
  BY DEF DirectSuspended
<1>4. world' = Do(world, c)
  BY <1>2, <1>3 DEF Do
<1>5. WorldOK(world') /\ ValuesOwned(world') /\ \A id \in Ids : world.gen[id] <= world'.gen[id]
  <2>1. WorldOK(world')
    BY <1>1, <1>2, <1>3, ApplyOK
  <2> QED
    BY <1>1, <1>2, <1>4, <2>1, DoOwned, DoGens
<1>6. QueuesKept(stage, stage)
  BY DEF QueuesKept
<1>7. QueuesSound(world', stage)
  BY <1>1, <1>5, <1>6, QueuesKeptSound
<1>8. IInv'
  BY <1>1, DirectSuspendedKeeps
<1>9. WritesSound(world', stage, bypassed')
  <2>1. CASE stage[0].queue = <<>>
    BY <1>1, <1>6, <2>1, WritesKeptSound
  <2>2. CASE stage[0].queue # <<>>
    BY <1>1, <1>3, <2>2, Zenon DEF WritesSound
  <2> QED
    BY <2>1, <2>2
<1> QED
  BY <1>1, <1>3, <1>5, <1>7, <1>8, <1>9, FlushKeptByParts

\* ecs_new.
LEMMA NewFlushes ==
    ASSUME FInv, NEW id \in Ids, New(id)
    PROVE  FInv'
<1> DEFINE alive == world.alive \cup {id}  w == [world EXCEPT !.alive = alive]
<1>1. /\ IInv /\ WorldOK(world) /\ ValuesOwned(world) /\ reacted \in Nat
      /\ QueuesSound(world, stage) /\ StagesOK(stage) /\ WritesSound(world, stage, bypassed)
  BY FInvFacts
<1>2. world' = w /\ UNCHANGED <<stageCount, stage, reacted, bypassed>> /\ expected' = NoWorld
  BY <1>1, WorldFacts DEF New, WorldSet
<1>3. world.alive \subseteq alive
  OBVIOUS
<1> HIDE DEF alive
<1>4. w.alive = alive /\ w.gen = world.gen /\ w.has = world.has /\ w.value = world.value
  BY <1>1, WorldFacts DEF WorldSet
<1> HIDE DEF w
<1>5. ValuesOwned(world') /\ world'.gen = world.gen
  BY <1>1, <1>2, <1>4 DEF ValuesOwned
<1>6. WritesSound(world', stage, bypassed)
  <2>1. \A q : WriteSound(world, q) => WriteSound(world', q)
    BY <1>2, <1>4, <1>3 DEF WriteSound, Alive
  <2> QED
    BY <1>1, <2>1 DEF WritesSound
<1>7. IInv'
  BY <1>1, NewKeeps
<1>8. WorldOK(world')
  BY <1>7 DEF IInv, WorldOK
<1>9. \A i \in Ids : world.gen[i] <= world'.gen[i]
  BY <1>1, <1>5, SameGens
<1>10. QueuesKept(stage, stage)
  BY DEF QueuesKept
<1>11. QueuesSound(world', stage)
  BY <1>1, <1>8, <1>9, <1>10, QueuesKeptSound
<1> QED
  BY <1>1, <1>2, <1>5, <1>7, <1>11, <1>6, FlushKeptByParts

-----------------------------------------------------------------------------
(* The steps of a flush                                                      *)

\* Where a flush leads, as the invariant says it.
LEMMA FlushFacts ==
    ASSUME FInv, expected # NoWorld, NEW s \in Stages, Flushes(s)
    PROVE  /\ WorldOK(expected)
           /\ stage[0].queue = <<>> /\ stage[s].queue = <<>>
           /\ \A t \in Stages \ {s} : stage[t].at = 0
           /\ FlushOK(ViewWorld(world, stage[s]), ViewQueue(world, stage[s]), stage[s].at,
                      stage[s].phase, expected)
<1>1. WorldOK(expected) /\ FlushSound(world, stage, expected)
  BY FInvFacts
<1>2. FlushAt(world, stage, s, expected)
  BY <1>1 DEF FlushSound, Flushes
<1> QED
  BY <1>1, <1>2 DEF FlushAt

\* A step that does a part of a batch: where no observer answers, it leaves the
\* flush sound if the operation does.
LEMMA OperationFlushes ==
    ASSUME FInv, IInv', NEW s \in Stages, Flushes(s),
           NEW w, WorldOK(w), ValuesOwned(w), \A id \in Ids : world.gen[id] <= w.gen[id],
           NEW st, StagesOK(st), \A t \in Stages \ {s} : st[t] = stage[t],
           st[s].at = stage[s].at, st[s].queue = stage[s].queue,
           \A t \in Stages \ {0} : Emptied(st[t]),
           NEW events, \A ev \in events : ev.entity \in Handles,
           Operate(w, st, events), KeepExpected, stageCount' = stageCount,
           expected # NoWorld =>
              FlushOK(ViewWorld(w, st[s]), ViewQueue(w, st[s]), st[s].at, st[s].phase, expected)
    PROVE  FInv'
<1>1. /\ IInv /\ 0 \in Stages /\ WorldOK(world) /\ reacted \in Nat
      /\ QueuesSound(world, stage) /\ StagesOK(stage) /\ WritesSound(world, stage, bypassed)
  BY FInvFacts
<1>2. st[s].at # 0
  BY DEF Flushes
<1>3. /\ ValuesOwned(world') /\ world'.gen = w.gen /\ reacted' \in Nat
      /\ QueuesKept(st, stage')
      /\ reacted' = reacted => world' = w /\ stage' = EndOperation(st)
  BY <1>1, OperateShape
<1>4. WorldOK(world') /\ StagesOK(stage')
  BY <1>1, OperateOK
<1>5. QueuesSound(world', stage') /\ WritesSound(world', stage', bypassed')
  <2>1. QueuesKept(stage, stage')
    BY <1>2, <1>3 DEF QueuesKept
  <2>2. \A id \in Ids : world.gen[id] <= world'.gen[id]
    BY <1>3
  <2> QED
    <3>1. stageCount = 1 => s = 0
      BY DEF Stages
    <3>2. WritesSound(world', stage', bypassed')
      BY <1>1, <1>4, <2>1, <3>1, WritesKeptSound DEF Flushes
    <3> QED
      BY <1>1, <1>4, <2>1, <2>2, <3>2, QueuesKeptSound
<1>6. ASSUME expected' # NoWorld PROVE FlushSound(world', stage', expected')
  <2>1. expected' = expected /\ world' = w /\ stage' = EndOperation(st) /\ expected # NoWorld
    BY <1>3, <1>6 DEF KeepExpected
  <2>2. /\ WorldOK(expected)
        /\ stage[0].queue = <<>> /\ stage[s].queue = <<>>
        /\ \A t \in Stages \ {s} : stage[t].at = 0
    BY <2>1, FlushFacts
  <2>3. st[0].queue = <<>> /\ \A t \in Stages \ {s} : st[t].at = 0
    BY <1>1, <2>2
  <2>4. /\ stage'[s] = st[s] /\ stage'[s].queue = <<>> /\ stage'[0].queue = <<>>
        /\ \A t \in Stages \ {s} : stage'[t].at = 0
    BY <1>1, <1>2, <2>1, <2>2, <2>3, QuietOperation
  <2>5. FlushAt(w, stage', s, expected)
    BY <2>1, <2>4 DEF FlushAt
  <2> QED
    BY <1>2, <2>1, <2>2, <2>4, <2>5 DEF FlushSound
<1> QED
  BY <1>3, <1>5, <1>6, FlushKeptByParts

\* What a commit takes away loses its value.
LEMMA CommitOwned ==
    ASSUME NEW w, WorldOK(w), ValuesOwned(w), NEW e, e.id \in Ids, NEW ids,
           NEW v, v = Commit(w, e, ids)
    PROVE  ValuesOwned(v)
<1>1. /\ v.has[e.id] = ids
      /\ \A id \in Ids \ {e.id} : v.has[id] = w.has[id] /\ v.value[id] = w.value[id]
      /\ \A c \in Components :
            v.value[e.id][c] = IF c \in ids \cap w.has[e.id] THEN w.value[e.id][c] ELSE Default
  BY CommitShape
<1> QED
  BY <1>1 DEF ValuesOwned

\* flecs_cmd_batch_for_entity: the type of a batch is committed.
LEMMA CommitBatchFlushes ==
    ASSUME FInv, NEW s \in Stages, CommitBatch(s)
    PROVE  FInv'
<1> DEFINE q == stage[s].flushed  i == stage[s].at
           w == Commit(world, q[i].entity, BatchedType(world, q, i))
           t == Batched(q, i)  added == BatchAdded(world, q, i)
           st == [stage EXCEPT ![s].phase = "set", ![s].flushed = t, ![s].added = added]
           removed == IF w.has[q[i].entity.id] = world.has[q[i].entity.id] THEN {}
                      ELSE BatchRemoved(world, q, i)
           events == {[on |-> "OnRemove", entity |-> q[i].entity, id |-> c] : c \in removed}
<1>1. /\ IInv /\ 0 \in Stages /\ WorldOK(world) /\ ValuesOwned(world) /\ StagesOK(stage)
      /\ stage[s] \in StageSet /\ \A u \in Stages : Emptied(stage[u])
  BY FInvFacts, InvFacts
<1>2. /\ Flushes(s) /\ Alive(world, q[i].entity) /\ ~BatchDeletes(world, q, i)
      /\ stage[s].phase = "visit"
      /\ Operate(w, st, events) /\ KeepExpected /\ stageCount' = stageCount
  BY DEF CommitBatch, Batches, Current
<1>3. i \in 1 .. Len(q) /\ q \in Seq(CommandSet)
  BY <1>1, <1>2, CurrentFacts
<1>4. q[i].entity \in Handles /\ q[i].entity.id \in Ids
  BY <1>3 DEF CommandSet, Handles
<1>5. BatchedType(world, q, i) \subseteq SoundIds(world) /\ added \in SUBSET AllIds
  <2>1. /\ BatchedType(world, q, i) \subseteq SoundIds(world)
        /\ added \subseteq BatchedType(world, q, i)
    BY <1>1, <1>3, BatchedTypeOK DEF BatchAdded, BatchedType
  <2> QED
    BY <2>1 DEF SoundIds
<1>6. WorldOK(w) /\ w.gen = world.gen /\ ValuesOwned(w)
  <2> DEFINE e == q[i].entity  T == BatchedType(world, q, i)
  <2>1. /\ e \in Handles /\ e.id \in Ids /\ Alive(world, e) /\ T \subseteq SoundIds(world)
        /\ w = Commit(world, e, T)
    BY <1>2, <1>4, <1>5
  <2> HIDE DEF e, T, w
  <2>2. WorldOK(w) /\ w.gen = world.gen
    BY <1>1, <2>1, CommitOK
  <2>3. ValuesOwned(w)
    BY <1>1, <2>1, CommitOwned
  <2> QED
    BY <2>2, <2>3
<1>7. SameCommands(q, t)
  BY <1>3, BatchedFacts
<1>8. expected # NoWorld => FlushOK(BatchedValues(w, t, i), BatchedSets(w, t, i), i, "set", expected)
  <2> SUFFICES ASSUME expected # NoWorld
               PROVE  FlushOK(BatchedValues(w, t, i), BatchedSets(w, t, i), i, "set", expected)
    OBVIOUS
  <2>1. WorldOK(expected) /\ FlushOK(world, q, i, "visit", expected)
    BY <1>1, <1>2, FlushFacts DEF ViewWorld, ViewQueue
  <2> DEFINE v == BatchedValues(w, t, i)  r == BatchedSets(w, t, i)
  <2>2. \A j \in Same(q, i) : LinkAt(q, j)
    BY <1>2, <2>1 DEF FlushOK, Same
  <2>3. BatchDone(world, q, i, v, r)
    <3> HIDE DEF q, i
    <3> QED
      BY <1>1, <1>2, <1>3, <2>2, BatchShape
  <2> HIDE DEF q, i, v, r
  <2>4. FlushOK(v, r, i, "set", expected)
    BY <1>1, <1>2, <1>3, <2>1, <2>3, BatchFlushes
  <2> QED
    BY <2>4 DEF v, r
<1>9. IInv'
  BY <1>1, CommitBatchKeeps
<1>10. /\ st[s].at = i /\ st[s].queue = stage[s].queue
       /\ st[s].flushed = t /\ st[s].phase = "set"
       /\ \A u \in Stages \ {s} : st[u] = stage[u]
  <2> DEFINE x == stage[s]  y == [x EXCEPT !.phase = "set", !.flushed = t, !.added = added]
  <2>1. x \in StageSet /\ stage \in [Stages -> StageSet] /\ i = x.at
    BY <1>1 DEF StagesOK
  <2>2. st = [stage EXCEPT ![s] = y]
    BY <2>1, Zenon
  <2> HIDE DEF t, added, i
  <2>3. y.at = x.at /\ y.queue = x.queue /\ y.flushed = t /\ y.phase = "set"
    BY <2>1 DEF StageSet
  <2> HIDE DEF y, st
  <2> QED
    BY <2>1, <2>2, <2>3
<1>11. \A ev \in events : ev.entity \in Handles
  <2> HIDE DEF removed
  <2> QED
    BY <1>4
<1> HIDE DEF q, w, t, added, removed, events
<1>12. StagesOK(st) /\ \A u \in Stages : Emptied(st[u])
  BY <1>1, <1>5, <1>7, MarkedFacts, Zenon DEF q
<1>13. \A id \in Ids : world.gen[id] <= w.gen[id]
  BY <1>1, <1>6, SameGens
<1>14. ViewWorld(w, st[s]) = BatchedValues(w, t, i) /\ ViewQueue(w, st[s]) = BatchedSets(w, t, i)
  BY <1>10 DEF ViewWorld, ViewQueue
<1> HIDE DEF st
<1> QED
  BY <1>2, <1>6, <1>8, <1>9, <1>10, <1>11, <1>12, <1>13, <1>14, OperationFlushes DEF i

\* ... or the batch deletes the entity.
LEMMA DeleteBatchFlushes ==
    ASSUME FInv, NEW s \in Stages, DeleteBatch(s)
    PROVE  FInv'
<1> DEFINE q == stage[s].flushed  i == stage[s].at
           w == Delete(world, q[i].entity)
           from == IF s = 0 THEN world ELSE CleanUp(world, q[i].entity)
           st == [stage EXCEPT ![s].phase = "execute"]
           events == Events(from, w, {})
<1>1. /\ IInv /\ 0 \in Stages /\ WorldOK(world) /\ ValuesOwned(world) /\ StagesOK(stage)
      /\ stage[s] \in StageSet /\ \A u \in Stages : Emptied(stage[u])
  BY FInvFacts, InvFacts
<1>2. /\ Flushes(s) /\ Alive(world, q[i].entity) /\ BatchDeletes(world, q, i)
      /\ stage[s].phase = "visit"
      /\ Operate(w, st, events) /\ KeepExpected /\ stageCount' = stageCount
  BY DEF DeleteBatch, EndsBatch, Batches, Current
<1>3. i \in 1 .. Len(q) /\ q \in Seq(CommandSet) /\ q[i] \in CommandSet
  BY <1>1, <1>2, CurrentFacts
<1>4. q[i].entity.id \in world.alive
  BY <1>2 DEF Alive
<1>5. WorldOK(w) /\ ValuesOwned(w) /\ \A id \in Ids : world.gen[id] <= w.gen[id]
  <2> DEFINE c == [q[i] EXCEPT !.kind = "Delete"]
  <2>1. c \in CommandSet /\ c.kind = "Delete" /\ c.entity = q[i].entity
    BY <1>3, Zenon DEF CommandSet, Kinds
  <2> HIDE DEF c, q, i
  <2>2. w = Do(world, c)
    BY <1>2, <2>1 DEF Do, Apply
  <2>3. WorldOK(w)
    BY <1>1, <1>4, DeleteOK
  <2> QED
    BY <1>1, <2>1, <2>2, <2>3, DoOwned, DoGens
<1>6. expected # NoWorld => FlushOK(w, q, i, "execute", expected)
  <2> SUFFICES ASSUME expected # NoWorld PROVE FlushOK(w, q, i, "execute", expected)
    OBVIOUS
  <2>1. WorldOK(expected) /\ FlushOK(world, q, i, "visit", expected)
    BY <1>1, <1>2, FlushFacts DEF ViewWorld, ViewQueue
  <2> HIDE DEF q, i
  <2> QED
    BY <1>1, <1>2, <1>3, <2>1, DeletedFlushes
<1>7. IInv'
  BY <1>1, DeleteBatchKeeps
<1>8. /\ st[s].at = i /\ st[s].queue = stage[s].queue
      /\ st[s].flushed = q /\ st[s].phase = "execute"
      /\ \A u \in Stages \ {s} : st[u] = stage[u]
  <2> DEFINE x == stage[s]  y == [x EXCEPT !.phase = "execute"]
  <2>1. x \in StageSet /\ stage \in [Stages -> StageSet] /\ i = x.at /\ q = x.flushed
    BY <1>1 DEF StagesOK
  <2>2. st = [stage EXCEPT ![s] = y]
    BY <2>1
  <2> HIDE DEF q, i
  <2>3. y.at = x.at /\ y.queue = x.queue /\ y.flushed = x.flushed /\ y.phase = "execute"
    BY <2>1 DEF StageSet
  <2> HIDE DEF y, st
  <2> QED
    BY <2>1, <2>2, <2>3
<1>9. \A ev \in events : ev.entity \in Handles
  <2>1. WorldOK(from)
    BY <1>1, <1>4, CleanUpOK
  <2> HIDE DEF from, w
  <2> QED
    BY <1>1, <1>5, <2>1, EventsTyped
<1>10. StagesOK(st) /\ \A u \in Stages : Emptied(st[u])
  <2> DEFINE x == stage[s]  added == x.added
             r == [stage EXCEPT ![s].phase = "execute", ![s].flushed = q, ![s].added = added]
  <2>1. stage \in [Stages -> StageSet] /\ x \in StageSet
    BY <1>1 DEF StagesOK
  <2>2. st = r
    BY <2>1, Zenon DEF StageSet
  <2>3. SameCommands(stage[s].flushed, q) /\ added \in SUBSET AllIds
    BY <2>1, StageFacts DEF SameCommands
  <2> HIDE DEF q, added
  <2>4. StagesOK(r) /\ \A u \in Stages : Emptied(r[u])
    BY <1>1, <2>3, MarkedFacts, Zenon
  <2> QED
    BY <2>2, <2>4, Zenon
<1>11. ViewWorld(w, st[s]) = w /\ ViewQueue(w, st[s]) = q
  BY <1>8 DEF ViewWorld, ViewQueue
<1> HIDE DEF q, w, from, st, events
<1> QED
  BY <1>2, <1>5, <1>6, <1>7, <1>8, <1>9, <1>10, <1>11, OperationFlushes DEF i

\* ... and its values are put in place.
LEMMA FinishBatchFlushes ==
    ASSUME FInv, NEW s \in Stages, FinishBatch(s)
    PROVE  FInv'
<1> DEFINE q == stage[s].flushed  i == stage[s].at  e == q[i].entity
           w == BatchedValues(world, q, i)  r == BatchedSets(world, q, i)
           st == [stage EXCEPT ![s].phase = "execute", ![s].flushed = r, ![s].added = {}]
           events == {[on |-> "OnAdd", entity |-> e, id |-> c] : c \in stage[s].added \cap world.has[e.id]}
<1>1. /\ IInv /\ 0 \in Stages /\ WorldOK(world) /\ ValuesOwned(world) /\ StagesOK(stage)
      /\ stage[s] \in StageSet /\ \A u \in Stages : Emptied(stage[u])
  BY FInvFacts, InvFacts
<1>2. /\ Flushes(s) /\ stage[s].phase = "set"
      /\ Operate(w, st, events) /\ KeepExpected /\ stageCount' = stageCount
  BY Zenon DEF FinishBatch
<1>3. i \in 1 .. Len(q) /\ q \in Seq(CommandSet) /\ e \in Handles /\ e.id \in Ids
  <2>1. i \in 1 .. Len(q) /\ q \in Seq(CommandSet)
    BY <1>1, <1>2, CurrentFacts, Zenon
  <2> QED
    BY <2>1 DEF CommandSet, Handles
<1>4. WorldOK(w) /\ w.gen = world.gen
  <2> HIDE DEF q, i
  <2> QED
    BY <1>1, <1>3, BatchedValuesOK
<1>5. ValuesOwned(w)
  <2>1. ValuesDone(world, q, i, w)
    BY <1>1, <1>3, BatchedValuesShape
  <2> HIDE DEF q, i, w
  <2>2. /\ w.has = world.has /\ \A id \in Ids \ {e.id} : w.value[id] = world.value[id]
        /\ \A c \in Components : c \notin world.has[e.id] => w.value[e.id][c] = world.value[e.id][c]
    BY <2>1 DEF ValuesDone
  <2> QED
    BY <1>1, <1>3, <2>2 DEF ValuesOwned
<1>6. SameCommands(q, r)
  BY <1>3, BatchedSetsFacts
<1>7. expected # NoWorld => FlushOK(w, r, i, "execute", expected)
  <2> SUFFICES ASSUME expected # NoWorld PROVE FlushOK(w, r, i, "execute", expected)
    OBVIOUS
  <2>1. FlushOK(w, r, i, "set", expected)
    BY <1>1, <1>2, FlushFacts, Zenon DEF ViewWorld, ViewQueue
  <2> HIDE DEF r, w, i
  <2> QED
    BY <2>1 DEF FlushOK, Passed, Touched
<1>8. IInv'
  BY <1>1, FinishBatchKeeps
<1>9. /\ st[s].at = i /\ st[s].queue = stage[s].queue
      /\ st[s].flushed = r /\ st[s].phase = "execute"
      /\ \A u \in Stages \ {s} : st[u] = stage[u]
  <2> DEFINE x == stage[s]  y == [x EXCEPT !.phase = "execute", !.flushed = r, !.added = {}]
  <2>1. x \in StageSet /\ stage \in [Stages -> StageSet] /\ i = x.at
    BY <1>1 DEF StagesOK
  <2>2. st = [stage EXCEPT ![s] = y]
    BY <2>1, Zenon
  <2> HIDE DEF r, i
  <2>3. y.at = x.at /\ y.queue = x.queue /\ y.flushed = r /\ y.phase = "execute"
    BY <2>1 DEF StageSet
  <2> HIDE DEF y, st
  <2> QED
    BY <2>1, <2>2, <2>3
<1> HIDE DEF e
<1>10. \A ev \in events : ev.entity \in Handles
  BY <1>3
<1> HIDE DEF q, w, r, events
<1>11. StagesOK(st) /\ \A u \in Stages : Emptied(st[u])
  BY <1>1, <1>6, MarkedFacts, Zenon DEF q
<1>12. \A id \in Ids : world.gen[id] <= w.gen[id]
  BY <1>1, <1>4, SameGens
<1>13. ViewWorld(w, st[s]) = w /\ ViewQueue(w, st[s]) = r
  BY <1>9 DEF ViewWorld, ViewQueue
<1> HIDE DEF st
<1> QED
  BY <1>2, <1>4, <1>5, <1>7, <1>8, <1>9, <1>10, <1>11, <1>12, <1>13, OperationFlushes DEF i

\* To the next command, or to what was queued in the meantime.
LEMMA NextCommandShape ==
    ASSUME NEW st \in [Stages -> StageSet], NEW s \in Stages, NEW r, r = NextCommand(st, s)
    PROVE  /\ \A t \in Stages \ {s} : r[t] = st[t]
           /\ IF st[s].at < Len(st[s].flushed)
              THEN /\ r[s].at = st[s].at + 1 /\ r[s].phase = "visit"
                   /\ r[s].flushed = st[s].flushed /\ r[s].queue = st[s].queue
              ELSE r[s].queue = <<>> /\ (st[s].queue = <<>> => r[s].at = 0)
           /\ st[s].at # 0 => QueuesKept(st, r)
<1> DEFINE x == st[s]  n == x.at + 1  y == [x EXCEPT !.at = n, !.phase = "visit"]
<1>1. x \in StageSet /\ x.at \in Nat
  BY StageFacts
<1>2. CASE x.at < Len(x.flushed)
  <2>1. r = [st EXCEPT ![s] = y]
    BY <1>1, <1>2, Zenon DEF NextCommand, StageSet
  <2> HIDE DEF n
  <2>2. y.at = n /\ y.phase = "visit" /\ y.flushed = x.flushed /\ y.queue = x.queue
    BY <1>1 DEF StageSet
  <2> HIDE DEF y
  <2>3. r[s] = y /\ \A t \in Stages \ {s} : r[t] = st[t]
    BY <2>1
  <2>4. n # 0
    BY <1>1 DEF n
  <2>5. QueuesKept(st, r)
    BY <2>2, <2>3, <2>4 DEF QueuesKept
  <2> QED
    BY <1>2, <2>2, <2>3, <2>5 DEF n
<1>3. CASE ~(x.at < Len(x.flushed))
  <2>1. r = StartFlush(st, s)
    BY <1>3 DEF NextCommand
  <2>2. /\ r[s].queue = <<>> /\ r[s].at = IF st[s].queue = <<>> THEN 0 ELSE 1
        /\ \A t \in Stages \ {s} : r[t] = st[t]
        /\ QueuesKept(st, r)
    BY <2>1, StartFlushShape
  <2> QED
    BY <1>3, <2>2
<1> QED
  BY <1>2, <1>3

\* ... where nothing was, the flush is sound after it, or leads to the outcome.
LEMMA GoesOnSound ==
    ASSUME 0 \in Stages, NEW st \in [Stages -> StageSet], NEW s \in Stages, st[s].at # 0,
           st[s].queue = <<>>, st[0].queue = <<>>, \A t \in Stages \ {s} : st[t].at = 0,
           NEW w, WorldOK(w), NEW z, WorldOK(z),
           FlushOK(w, st[s].flushed, st[s].at + 1, "visit", z),
           NEW r, r = NextCommand(st, s)
    PROVE  FlushSound(w, r, z)
<1> DEFINE q == st[s].flushed  n == st[s].at
<1>1. q \in Seq(CommandSet) /\ n \in Nat /\ Len(q) \in Nat
  <2>1. st[s] \in StageSet
    OBVIOUS
  <2> QED
    BY <2>1, StageFacts
<1>2. /\ \A t \in Stages \ {s} : r[t] = st[t]
      /\ IF n < Len(q)
         THEN r[s].at = n + 1 /\ r[s].phase = "visit" /\ r[s].flushed = q /\ r[s].queue = <<>>
         ELSE r[s].queue = <<>> /\ r[s].at = 0
  BY NextCommandShape
<1>3. r[0].queue = <<>> /\ \A t \in Stages \ {s} : r[t].at = 0
  BY <1>2
<1>4. CASE n < Len(q)
  <2>1. r[s].at = n + 1 /\ r[s].phase = "visit" /\ r[s].flushed = q /\ r[s].queue = <<>> /\ n + 1 # 0
    BY <1>1, <1>2, <1>4
  <2>2. ViewWorld(w, r[s]) = w /\ ViewQueue(w, r[s]) = q
    BY <2>1 DEF ViewWorld, ViewQueue
  <2>3. FlushAt(w, r, s, z)
    BY <1>3, <2>1, <2>2 DEF FlushAt
  <2> QED
    BY <1>3, <2>1, <2>3 DEF FlushSound
<1>5. CASE ~(n < Len(q))
  <2>1. \A t \in Stages : r[t].at = 0
    BY <1>2, <1>3, <1>5
  <2>2. Leads(w, q, n + 1, z)
    BY DEF FlushOK
  <2>3. n + 1 \in Nat /\ n + 1 > Len(q)
    BY <1>1, <1>5
  <2> HIDE DEF q, n
  <2>4. Reached(w, z)
    BY <1>1, <2>2, <2>3, LeadsReached
  <2> QED
    BY <2>1, <2>4 DEF FlushSound
<1> QED
  BY <1>4, <1>5

\* Where a command is discarded, nothing changes; otherwise the world does.
LEMMA DiscardsDo ==
    ASSUME NEW c
    PROVE  Do(world, c) = IF Discards(c) THEN world ELSE Apply(world, c)
<1>1. c.kind = "Skip" => Apply(world, c) = world
  BY DEF Apply
<1> QED
  BY <1>1 DEF Do, Discards

\* A command of flecs_defer_end, and the step to the next one.
LEMMA ExecuteGoesOn ==
    ASSUME FInv, NEW s \in Stages, Execute(s)
    PROVE  FInv'
<1> DEFINE q == stage[s].flushed  n == stage[s].at  phase == stage[s].phase
           c == Current(s)
           w == Apply(world, c)
           v == Do(world, c)
           st == Invalidated(stage, s, c)
<1>1. /\ IInv /\ 0 \in Stages /\ WorldOK(world) /\ ValuesOwned(world) /\ StagesOK(stage)
      /\ stage \in [Stages -> StageSet] /\ stage[s] \in StageSet /\ StageOK(stage[s])
      /\ reacted \in Nat /\ QueuesSound(world, stage) /\ WritesSound(world, stage, bypassed)
  BY FInvFacts, InvFacts
<1>2. /\ Flushes(s) /\ ~Batches(s) /\ phase # "set"
      /\ KeepExpected /\ stageCount' = stageCount
      /\ \/ /\ Discards(c) /\ stage' = NextCommand(st, s)
            /\ world' = world /\ reacted' = reacted
         \/ /\ ~Discards(c)
            /\ \E o \in Outcomes(w, st, EventsOf(CleanedUp(c), c, w)) :
                  /\ world' = o.world /\ reacted' = o.reacted
                  /\ stage' = NextCommand(EndOperation(o.stage), s)
  BY DEF Execute, Executes
<1>3. IInv'
  BY <1>1, ExecuteKeeps
<1>4. /\ n # 0 /\ n \in 1 .. Len(q) /\ q \in Seq(CommandSet)
      /\ c \in CommandSet /\ c = q[n]
  BY <1>1, <1>2, CurrentFacts
<1>5. AtCommand(world, q, n, phase)
  <2>1. phase \in {"visit", "execute"}
    BY <1>1, <1>2, StageFacts
  <2>2. ~(phase = "visit" /\ q[n].next < 0 /\ Alive(world, q[n].entity))
    BY <1>2 DEF Batches, Current
  <2> QED
    BY <2>1, <2>2 DEF AtCommand
<1>6. /\ WorldOK(v) /\ ValuesOwned(v) /\ \A id \in Ids : world.gen[id] <= v.gen[id]
  <2>1. WorldOK(v)
    BY <1>1, <1>4, ApplyOK DEF Do
  <2> QED
    BY <1>1, <1>4, <2>1, DoOwned, DoGens
<1>7. v = IF Discards(c) THEN world ELSE w
  BY DiscardsDo
<1>8. expected # NoWorld => FlushOK(v, q, n + 1, "visit", expected)
  <2> SUFFICES ASSUME expected # NoWorld PROVE FlushOK(v, q, n + 1, "visit", expected)
    OBVIOUS
  <2>1. WorldOK(expected) /\ FlushOK(world, q, n, phase, expected)
    BY <1>1, <1>2, FlushFacts DEF ViewWorld, ViewQueue
  <2>2. v = Do(world, q[n])
    BY <1>4
  <2> HIDE DEF q, n, phase, v
  <2> QED
    BY <1>1, <1>4, <1>5, <2>1, <2>2, ExecuteFlushes
<1>9. /\ st \in [Stages -> StageSet]
      /\ st[s] = [stage[s] EXCEPT !.stale = st[s].stale]
      /\ StageOK(st[s])
      /\ \A t \in Stages \ {s} : st[t] = stage[t]
  <2> HIDE DEF c
  <2> QED
    BY <1>1, <1>4, InvalidatedFacts DEF q, n
<1> HIDE DEF c, st, w, v
<1>10. st[s].at = n /\ st[s].flushed = q /\ st[s].queue = stage[s].queue
  <2> DEFINE x == stage[s]  stale == st[s].stale
  <2>1. x \in StageSet /\ st[s] = [x EXCEPT !.stale = stale]
    BY <1>1, <1>9
  <2> HIDE DEF x, stale
  <2>2. st[s].at = x.at /\ st[s].flushed = x.flushed /\ st[s].queue = x.queue
    BY <2>1 DEF StageSet
  <2> QED
    BY <2>2 DEF x
<1>11. StagesOK(st) /\ QueuesKept(stage, st)
  BY <1>1, <1>4, <1>9, <1>10 DEF StagesOK, QueuesKept
<1>12. expected # NoWorld =>
          /\ WorldOK(expected)
          /\ st[0].queue = <<>> /\ st[s].queue = <<>>
          /\ \A t \in Stages \ {s} : st[t].at = 0
  BY <1>1, <1>2, <1>9, <1>10, FlushFacts
<1>13. WorldOK(world') /\ StagesOK(stage')
  <2>1. WorldOK(world')
    BY <1>3 DEF IInv, WorldOK
  <2>2. Stages' = Stages
    BY <1>2 DEF Stages
  <2> QED
    BY <1>3, <2>1, <2>2 DEF IInv, StagesOK, StageOK, QueueOK, Ahead
<1>14. /\ ValuesOwned(world') /\ world'.gen = v.gen /\ reacted' \in Nat
       /\ QueuesKept(stage, stage')
       /\ expected' # NoWorld => FlushSound(world', stage', expected')
  <2>1. CASE Discards(c)
    <3>1. /\ stage' = NextCommand(st, s) /\ world' = world /\ reacted' = reacted /\ v = world
          /\ expected' = expected
      BY <1>2, <1>7, <2>1 DEF KeepExpected
    <3>2. QueuesKept(stage, stage')
      BY <1>4, <1>9, <1>10, <1>11, <3>1, NextCommandShape, QueuesKeptTrans
    <3>3. expected' # NoWorld => FlushSound(world', stage', expected')
      BY <1>1, <1>4, <1>8, <1>9, <1>10, <1>12, <3>1, GoesOnSound
    <3> QED
      BY <1>1, <3>1, <3>2, <3>3
  <2>2. CASE ~Discards(c)
    <3>1. PICK o \in Outcomes(w, st, EventsOf(CleanedUp(c), c, w)) :
             /\ world' = o.world /\ reacted' = o.reacted
             /\ stage' = NextCommand(EndOperation(o.stage), s)
      BY <1>2, <2>2
    <3>2. WorldOK(w) /\ ValuesOwned(w) /\ v = w
      BY <1>6, <1>7, <2>2
    <3>3. \A ev \in EventsOf(CleanedUp(c), c, w) : ev.entity \in Handles
      BY <1>1, <1>4, <2>2, <3>2, CleanedUpOK, EventsOfTyped DEF Discards
    <3>4. /\ ValuesOwned(o.world) /\ o.world.gen = w.gen /\ o.reacted \in Nat
          /\ o.reacted = reacted => o.world = w /\ o.stage = st
      BY <1>1, <1>11, <3>1, <3>2, <3>3, OutcomesShape
    <3>5. /\ StagesOK(o.stage) /\ \A t \in Stages \ {0} : o.stage[t] = st[t]
          /\ o.stage[0].at = st[0].at
      BY <1>1, <1>11, <3>1, <3>2, <3>3, OutcomesOK
    <3> DEFINE u == EndOperation(o.stage)
    <3>6. /\ \A t \in Stages \ {0} : u[t] = o.stage[t]
          /\ o.stage[0].at # 0 => u = o.stage
          /\ o.stage[0].at = 0 => u[0].queue = <<>>
      BY <1>1, <3>5, EndOperationShape
    <3>7. StagesOK(u)
      BY <1>1, <3>5, EndOperationFacts
    <3>8. u \in [Stages -> StageSet]
      BY <3>7 DEF StagesOK
    <3>9. o.reacted = reacted => u = EndOperation(st)
      BY <3>4
    <3>10. stage' = NextCommand(u, s)
      BY <3>1
    <3> HIDE DEF u
    <3>11. QueuesKept(st, u)
      BY <3>5, <3>6 DEF QueuesKept
    <3>12. u[s].at # 0
      <4>1. CASE s = 0
        BY <1>4, <1>10, <3>5, <3>6, <4>1
      <4>2. CASE s # 0
        BY <1>4, <1>10, <3>5, <3>6, <4>2
      <4> QED
        BY <4>1, <4>2
    <3>13. QueuesKept(stage, stage')
      BY <1>11, <3>8, <3>10, <3>11, <3>12, NextCommandShape, QueuesKeptTrans
    <3>14. ASSUME expected' # NoWorld PROVE FlushSound(world', stage', expected')
      <4>1. expected' = expected /\ o.reacted = reacted /\ world' = v /\ expected # NoWorld
        BY <1>2, <3>1, <3>2, <3>4, <3>14 DEF KeepExpected
      <4>2. /\ u[s] = st[s] /\ u[s].queue = <<>> /\ u[0].queue = <<>>
            /\ \A t \in Stages \ {s} : u[t].at = 0
        BY <1>1, <1>4, <1>10, <1>11, <1>12, <3>9, <4>1, QuietOperation
      <4> QED
        BY <1>1, <1>6, <1>8, <1>10, <1>12, <3>8, <3>10, <3>12, <4>1, <4>2, GoesOnSound
    <3> QED
      BY <3>1, <3>2, <3>4, <3>13, <3>14
  <2> QED
    BY <2>1, <2>2
<1>15. QueuesSound(world', stage')
  <2>1. \A id \in Ids : world.gen[id] <= world'.gen[id]
    BY <1>6, <1>14
  <2> QED
    BY <1>1, <1>13, <1>14, <2>1, QueuesKeptSound
<1>16. WritesSound(world', stage', bypassed')
  <2>1. stageCount = 1 => s = 0
    BY DEF Stages
  <2>2. stage[s].at # 0
    BY <1>4
  <2> QED
    BY <1>1, <1>13, <1>14, <2>1, <2>2, WritesKeptSound
<1> QED
  BY <1>2, <1>3, <1>14, <1>15, <1>16, FlushKeptByParts

-----------------------------------------------------------------------------
(* An entity that is being deleted                                           *)

\* No pair names the entity whose cleanup is done, and none is added before it is
\* removed: observers have queued on the first stage only what adds no pair, and
\* is answered with nothing that does.

\* An id that only observers answer which add no pair.
MildId(x) ==
    x \notin Pairs /\ \A p \in Reactions : p.on \in {"OnAdd", "OnSet"} /\ p.id = x => p \in Provoked
MildCommand(c) == c.kind \in {"Add", "Set", "AddModified", "Modified"} => MildId(c.id)
MildQueue(q) == \A j \in 1 .. Len(q) : MildCommand(q[j])
MildStage(x) ==
    /\ MildQueue(x.queue) /\ MildQueue(x.flushed)
    /\ x.phase = "set" => \A i \in x.added : MildId(i)
MildEvents(events) ==
    \A ev \in events : ev.on = "OnRemove" \/ (ev.on \in {"OnAdd", "OnSet"} /\ MildId(ev.id))

Unnamed(w, e) == \A id \in Ids : \A p \in w.has[id] \cap Pairs : p.target # e.id
FewerPairs(w, v) == \A id \in Ids : v.has[id] \cap Pairs \subseteq w.has[id]

\* While another stage is flushed, the first is not deferred.
OthersFlushed(st) == \A s \in Stages \ {0} : st[s].at # 0 => st[0].defer = 0

DInv ==
    /\ OthersFlushed(stage)
    /\ deleting \subseteq Entity
    /\ deleting # {} =>
          /\ stage[0].defer = 0 /\ MildStage(stage[0])
          /\ \A e \in deleting : Unnamed(world, e)

\* The observers that are called while an entity is deleted.
LEMMA ProvokedFacts ==
    /\ \A r \in Reactions : r.on = "OnRemove" => r \in Provoked
    /\ \A r \in Provoked, p \in Reactions : Provokes(r, p) => p \in Provoked
  BY DEF Provoked, ClosedReactions

\* They answer with commands that are mild.
LEMMA MildAnswer ==
    ASSUME NEW r \in Reactions, NEW ev, NEW w, Answers(r, ev, w),
           ev.on = "OnRemove" \/ (ev.on \in {"OnAdd", "OnSet"} /\ MildId(ev.id)),
           NEW c, c = Answer(r, ev, w)
    PROVE  MildCommand(c) /\ Queued(c) /\ c.kind = c.op
<1>1. r \in Provoked
  BY ProvokedFacts DEF Answers, MildId
<1>2. \E e : c = [op |-> r.op, kind |-> r.op, entity |-> e, id |-> r.operand, value |-> r.value,
                  next |-> 0, entry |-> FALSE]
  BY DEF Answer, Command
<1>3. c.op = r.op /\ c.kind = r.op /\ c.id = r.operand
  BY <1>2
<1>4. /\ r.op \in {"Add", "Remove", "Set", "Clear", "Delete"}
      /\ r.op = "Set" => r.operand \in Components
      /\ r.op = "Clear" => r.operand = NoId
  BY ReactionsAssumption
<1>5. r.op \in {"Add", "Set"} => MildId(r.operand)
  <2>1. r.op \in {"Add", "Set"} => r.operand \notin Pairs
    BY <1>1, <1>4, ProvokedAssumption, IdsAssumption
  <2> QED
    BY <1>1, <2>1, ProvokedFacts DEF MildId, Provokes
<1>6. NoId \notin Pairs
  BY NoIdAssumption DEF AllIds
<1> QED
  BY <1>3, <1>4, <1>5, <1>6 DEF MildCommand, Queued

\* A queue takes a command that is mild.
LEMMA PutMild ==
    ASSUME NEW st, StagesOK(st), NEW s \in Stages, MildQueue(st[s].queue), NEW w, NEW command,
           NewCommand(command), Queued(command), command.kind = command.op, MildCommand(command),
           NEW r, r = Put(st, s, w, command)
    PROVE  /\ MildQueue(r[s].queue)
           /\ r[s].flushed = st[s].flushed /\ r[s].phase = st[s].phase /\ r[s].added = st[s].added
<1> DEFINE c == AsPut(w, command)  q == st[s].queue  u == r[s].queue
           entry == st[s].entries[c.entity.id]
<1>1. st \in [Stages -> StageSet] /\ st[s] \in StageSet /\ StageOK(st[s])
  BY DEF StagesOK
<1>2. q \in Seq(CommandSet) /\ st[s].entries \in [Ids -> Entries]
  BY <1>1, StageFacts
<1>3. c \in CommandSet /\ (c.kind = "AddModified" => command.kind = "Set") /\ c.id = command.id
  <2>1. c \in CommandSet /\ c.id = command.id /\ (c.kind = "AddModified" => WritesAtOnce(w, command))
    BY AsPutFacts
  <2> QED
    BY <2>1 DEF WritesAtOnce
<1>4. c.kind # "AddModified" => c.kind = command.kind
  BY DEF AsPut, WritesAtOnce, NewCommand, CommandSet
<1>5. MildCommand(c)
  BY <1>3, <1>4 DEF MildCommand
<1>6. u = Linked(q, entry, c)
  <2>1. IsPut(st, s, c, r)
    BY <1>1, PutShape
  <2> HIDE DEF c
  <2> QED
    BY <2>1 DEF IsPut, Links
<1>7. entry \in Entries /\ (IsLinked(q, entry, c) => entry.last \in 1 .. Len(q))
  <2>1. c.entity.id \in Ids
    BY <1>3 DEF CommandSet, Handles
  <2>2. entry \in Entries /\ (entry.first # 0 => ChainSound(q, entry, c.entity.id))
    BY <1>1, <1>2, <2>1 DEF StageOK, QueueOK, Chained
  <2> QED
    BY <1>2, <2>2, ChainFacts DEF IsLinked
<1> HIDE DEF c, q, entry
<1>8. LinkedShape(q, entry, c, u)
  BY <1>2, <1>3, <1>6, <1>7, LinkedHasShape
<1>9. /\ Len(u) = Len(q) + 1 /\ Len(q) \in Nat
      /\ \A j \in 1 .. Len(q) : u[j].kind = q[j].kind /\ u[j].id = q[j].id
      /\ u[Len(q) + 1].kind = c.kind /\ u[Len(q) + 1].id = c.id
  BY <1>2, <1>8 DEF LinkedShape
<1> HIDE DEF u
<1>10. MildQueue(u)
  <2>1. \A j \in 1 .. Len(u) : j \in 1 .. Len(q) \/ j = Len(q) + 1
    BY <1>9
  <2> QED
    BY <1>5, <1>9, <2>1 DEF MildQueue, MildCommand, q
<1> QED
  BY <1>1, <1>10, PutFacts DEF u

\* What comes of an operation whose observers answer with what is mild.
LEMMA OutcomesMild ==
    ASSUME 0 \in Stages, WorldOK(world), NEW w, WorldOK(w), NEW st, StagesOK(st),
           NEW events, \A ev \in events : ev.entity \in Handles, MildEvents(events),
           MildQueue(st[0].queue), NEW o \in Outcomes(w, st, events)
    PROVE  /\ MildQueue(o.stage[0].queue) /\ o.world.has = w.has
           /\ o.stage[0].flushed = st[0].flushed /\ o.stage[0].phase = st[0].phase
           /\ o.stage[0].added = st[0].added
<1> DEFINE Seen(ev) == IF ev.on = "OnRemove" THEN world ELSE w
           Answered(x) == x \in events \X Reactions /\ Answers(x[2], x[1], Seen(x[1]))
           Outcome(x) == LET c == Answer(x[2], x[1], Seen(x[1]))
                         IN  [world |-> Written(w, c), stage |-> Put(st, 0, Seen(x[1]), c),
                              reacted |-> reacted + 1]
<1>1. \/ o = [world |-> w, stage |-> st, reacted |-> reacted]
      \/ \E x : Answered(x) /\ o = Outcome(x)
  BY DEF Outcomes
<1>2. CASE o = [world |-> w, stage |-> st, reacted |-> reacted]
  BY <1>2
<1>3. ASSUME NEW x, Answered(x), o = Outcome(x)
      PROVE  /\ MildQueue(o.stage[0].queue) /\ o.world.has = w.has
             /\ o.stage[0].flushed = st[0].flushed /\ o.stage[0].phase = st[0].phase
             /\ o.stage[0].added = st[0].added
  <2> DEFINE seen == Seen(x[1])  c == Answer(x[2], x[1], seen)
  <2>1. /\ x[1].entity \in Handles /\ x[2] \in Reactions /\ Answers(x[2], x[1], seen) /\ WorldOK(seen)
        /\ x[1].on = "OnRemove" \/ (x[1].on \in {"OnAdd", "OnSet"} /\ MildId(x[1].id))
    BY <1>3 DEF MildEvents
  <2>2. o.world = Written(w, c) /\ o.stage = Put(st, 0, seen, c)
    BY <1>3
  <2> HIDE DEF seen
  <2>3. NewCommand(c) /\ MildCommand(c) /\ Queued(c) /\ c.kind = c.op
    BY <2>1, AnswerOK, MildAnswer
  <2> HIDE DEF c
  <2>4. o.world.has = w.has
    BY <2>2, <2>3, WrittenOK DEF NewCommand
  <2> QED
    BY <2>2, <2>3, <2>4, PutMild
<1> HIDE DEF Answered, Outcome
<1> QED
  BY <1>1, <1>2, <1>3

\* The flush of a queue that is mild starts.
LEMMA StartFlushMild ==
    ASSUME NEW st, StagesOK(st), NEW s \in Stages, MildQueue(st[s].queue),
           NEW r, r = StartFlush(st, s)
    PROVE  MildStage(r[s])
<1>1. st \in [Stages -> StageSet]
  BY DEF StagesOK
<1>2. r[s].queue = <<>> /\ r[s].flushed = st[s].queue /\ r[s].phase = "visit"
  BY <1>1, StartFlushShape
<1> QED
  BY <1>2 DEF MildStage, MildQueue

LEMMA EndOperationMild ==
    ASSUME 0 \in Stages, NEW st, StagesOK(st), MildQueue(st[0].queue),
           st[0].at # 0 => MildStage(st[0]), NEW r, r = EndOperation(st)
    PROVE  MildStage(r[0])
<1>1. CASE st[0].at # 0
  BY <1>1 DEF EndOperation
<1>2. CASE st[0].at = 0
  BY <1>2, StartFlushMild DEF EndOperation
<1> QED
  BY <1>1, <1>2

LEMMA OperateMild ==
    ASSUME 0 \in Stages, WorldOK(world), NEW w, WorldOK(w), NEW st, StagesOK(st),
           NEW events, \A ev \in events : ev.entity \in Handles, MildEvents(events),
           MildQueue(st[0].queue), st[0].at # 0 => MildStage(st[0]), Operate(w, st, events)
    PROVE  MildStage(stage'[0]) /\ world'.has = w.has
<1>1. PICK o \in Outcomes(w, st, events) : world' = o.world /\ stage' = EndOperation(o.stage)
  BY DEF Operate
<1>2. StagesOK(o.stage) /\ o.stage[0].at = st[0].at
  BY OutcomesOK
<1>3. /\ MildQueue(o.stage[0].queue) /\ o.world.has = w.has
      /\ o.stage[0].flushed = st[0].flushed /\ o.stage[0].phase = st[0].phase
      /\ o.stage[0].added = st[0].added
  BY OutcomesMild
<1>4. o.stage[0].at # 0 => MildStage(o.stage[0])
  BY <1>2, <1>3 DEF MildStage
<1> QED
  BY <1>1, <1>2, <1>3, <1>4, EndOperationMild

\* What a step of the world tells observers that adds nothing but mild ids.
LEMMA EventsMild ==
    ASSUME NEW w, NEW v, NEW sets, \A y \in sets : MildId(y[2]),
           \A id \in Ids : \A x \in v.has[id] \ w.has[id] : MildId(x)
    PROVE  MildEvents(Events(w, v, sets))
<1> SUFFICES ASSUME NEW ev \in Events(w, v, sets)
             PROVE  ev.on = "OnRemove" \/ (ev.on \in {"OnAdd", "OnSet"} /\ MildId(ev.id))
  BY DEF MildEvents
<1> DEFINE A == UNION {{[on |-> "OnAdd", entity |-> Handle(v, id), id |-> c] :
                            c \in v.has[id] \ w.has[id]} : id \in Ids}
           B == UNION {{[on |-> "OnRemove", entity |-> Handle(w, id), id |-> c] :
                            c \in w.has[id] \ v.has[id]} : id \in Ids}
           C == {[on |-> "OnSet", entity |-> Handle(v, x[1]), id |-> x[2]] :
                    x \in {y \in sets : y[2] \in v.has[y[1]]}}
<1>1. ASSUME ev \in A PROVE ev.on = "OnAdd" /\ MildId(ev.id)
  <2>1. \E id \in Ids : \E c \in v.has[id] \ w.has[id] :
            ev = [on |-> "OnAdd", entity |-> Handle(v, id), id |-> c]
    BY <1>1
  <2> QED
    BY <2>1
<1>2. ASSUME ev \in B PROVE ev.on = "OnRemove"
  BY <1>2
<1>3. ASSUME ev \in C PROVE ev.on = "OnSet" /\ MildId(ev.id)
  <2>1. \E y \in sets : ev = [on |-> "OnSet", entity |-> Handle(v, y[1]), id |-> y[2]]
    BY <1>3
  <2> QED
    BY <2>1
<1>4. Events(w, v, sets) = A \cup B \cup C
  BY DEF Events
<1> HIDE DEF A, B, C
<1> QED
  BY <1>1, <1>2, <1>3, <1>4

\* What is removed leaves nothing new.
LEMMA WithoutMild ==
    ASSUME NEW w, WorldOK(w), NEW ids, NEW targets, NEW v, v = Without(w, ids, targets)
    PROVE  FewerPairs(w, v) /\ MildEvents(Events(w, v, {}))
<1>1. \A id \in Ids : v.has[id] \subseteq w.has[id]
  BY WithoutShape
<1> QED
  BY <1>1, EventsMild DEF FewerPairs

\* A command of a batch adds nothing but its id.
LEMMA TypeAfterAdds ==
    ASSUME NEW w, NEW c, NEW before, NEW x \in TypeAfter(w, c, before), x \notin before
    PROVE  c.kind \in {"Add", "Set", "AddModified"} /\ x = c.id
<1>1. ~Invalid(w, c.id)
  BY DEF TypeAfter
<1>2. CASE c.kind \in {"Add", "Set", "AddModified"}
  <2>1. TypeAfter(w, c, before) = before \cup {c.id}
    BY <1>1, <1>2 DEF TypeAfter
  <2> QED
    BY <1>2, <2>1
<1>3. CASE c.kind = "Remove"
  <2>1. TypeAfter(w, c, before) = before \ {c.id}
    BY <1>1, <1>3 DEF TypeAfter
  <2> QED
    BY <2>1
<1>4. CASE c.kind = "Clear"
  <2>1. TypeAfter(w, c, before) = {}
    BY <1>1, <1>4 DEF TypeAfter
  <2> QED
    BY <2>1
<1>5. CASE c.kind \notin {"Add", "Set", "AddModified", "Remove", "Clear"}
  <2>1. TypeAfter(w, c, before) = before
    BY <1>1, <1>5 DEF TypeAfter
  <2> QED
    BY <2>1
<1> QED
  BY <1>2, <1>3, <1>4, <1>5

\* A batch of commands that are mild adds nothing but mild ids.
LEMMA BatchMild ==
    ASSUME NEW w, WorldOK(w), NEW q \in Seq(CommandSet), NEW i \in 1 .. Len(q), MildQueue(q)
    PROVE  /\ \A x \in BatchedType(w, q, i) : x \in w.has[q[i].entity.id] \/ MildId(x)
           /\ \A x \in BatchAdded(w, q, i) : MildId(x)
<1> DEFINE base == w.has[q[i].entity.id]  L == Len(q) + 1  type == BatchTypes(w, q, i)
           Fits(n) == \A x \in type[n] : x \in base \/ MildId(x)
<1>1. type[i] = base /\ \A j \in i + 1 .. L : type[j] = TypeAt(w, q, i, j, type[j - 1])
  BY BatchWalk
<1>2. L \in Nat /\ i \in Nat /\ i <= L /\ Len(q) \in Nat
  OBVIOUS
<1>3. BatchedType(w, q, i) = type[L]
  BY DEF BatchedType
<1>4. ASSUME NEW x \in BatchAdded(w, q, i) PROVE \E j \in i .. Len(q) : x \in type[j + 1] \ type[j]
  BY <1>4 DEF BatchAdded
<1> HIDE DEF type, base
<1>5. ASSUME NEW j \in i + 1 .. L, NEW x \in type[j], x \notin type[j - 1] PROVE MildId(x)
  <2>1. type[j] = TypeAt(w, q, i, j, type[j - 1])
    BY <1>1
  <2>2. x \in TypeAfter(w, q[j - 1], type[j - 1])
    BY <1>5, <2>1 DEF TypeAt
  <2>3. q[j - 1].kind \in {"Add", "Set", "AddModified"} /\ x = q[j - 1].id
    BY <1>5, <2>2, TypeAfterAdds
  <2>4. j - 1 \in 1 .. Len(q)
    BY <1>2
  <2>5. MildCommand(q[j - 1])
    BY <2>4 DEF MildQueue
  <2> QED
    BY <2>3, <2>5 DEF MildCommand
<1>6. \A x \in BatchAdded(w, q, i) : MildId(x)
  <2> SUFFICES ASSUME NEW x \in BatchAdded(w, q, i) PROVE MildId(x)
    OBVIOUS
  <2>1. PICK j \in i .. Len(q) : x \in type[j + 1] \ type[j]
    BY <1>4
  <2>2. j + 1 \in i + 1 .. L /\ (j + 1) - 1 = j
    BY <1>2
  <2> HIDE DEF L
  <2>3. x \in type[j + 1] /\ x \notin type[(j + 1) - 1]
    BY <2>1, <2>2
  <2> QED
    BY <1>5, <2>2, <2>3
<1> HIDE DEF L
<1>7. Fits(L)
  <2> DEFINE S == {n \in i .. L : ~Fits(n)}
  <2> HIDE DEF Fits
  <2> SUFFICES ASSUME S # {} PROVE FALSE
    BY <1>2
  <2>1. S \in SUBSET Nat
    BY <1>2
  <2> HIDE DEF S
  <2>2. PICK n \in S : \A m \in S : n <= m
    BY <2>1, SmallestOf
  <2>3. Fits(i)
    BY <1>1 DEF Fits
  <2>4. n \in i .. L /\ ~Fits(n) /\ n # i
    BY <2>2, <2>3 DEF S
  <2>5. n \in i + 1 .. L /\ n - 1 \in i .. L
    BY <1>2, <2>4
  <2>6. n - 1 \notin S
    BY <1>2, <2>2, <2>4
  <2>7. Fits(n - 1)
    BY <2>5, <2>6 DEF S
  <2> QED
    BY <1>5, <2>4, <2>5, <2>7 DEF Fits
<1> QED
  BY <1>3, <1>6, <1>7 DEF base

\* The marks of a batch leave its commands mild.
LEMMA BatchedMild ==
    ASSUME NEW q \in Seq(CommandSet), MildQueue(q), NEW i
    PROVE  MildQueue(Batched(q, i))
<1> DEFINE r == Batched(q, i)
           Mark(j) == IF j \in Chain(q, i) THEN [q[j] EXCEPT !.kind = BatchedKind(q[j])] ELSE q[j]
<1>1. Len(r) = Len(q) /\ \A j \in 1 .. Len(q) : r[j] = Mark(j)
  BY BatchedFacts DEF SameCommands, Batched
<1>2. ASSUME NEW j \in 1 .. Len(q) PROVE MildCommand(Mark(j))
  <2> DEFINE c == q[j]  k == BatchedKind(c)
  <2>1. c \in CommandSet /\ MildCommand(c)
    BY DEF MildQueue
  <2>2. k \in {"Add", "Set", "AddModified", "Modified"} => c.kind \in {"Set", "AddModified", "Modified"}
    BY <2>1 DEF BatchedKind, CommandSet, Kinds
  <2>3. Mark(j) = IF j \in Chain(q, i) THEN [c EXCEPT !.kind = k] ELSE c
    OBVIOUS
  <2> HIDE DEF c, k, Mark
  <2>4. [c EXCEPT !.kind = k].kind = k /\ [c EXCEPT !.kind = k].id = c.id
    BY <2>1 DEF CommandSet
  <2> QED
    BY <2>1, <2>2, <2>3, <2>4 DEF MildCommand
<1> HIDE DEF r, Mark
<1>3. MildQueue(r)
  BY <1>1, <1>2 DEF MildQueue
<1> QED
  BY <1>3 DEF r

LEMMA BatchedSetsMild ==
    ASSUME NEW w, NEW q \in Seq(CommandSet), MildQueue(q), NEW i
    PROVE  MildQueue(BatchedSets(w, q, i))
<1> DEFINE r == BatchedSets(w, q, i)
           Mark(j) == IF j \in Chain(q, i) /\ q[j].kind = "Set"
                      THEN [q[j] EXCEPT !.kind = IF q[j].id \in w.has[q[i].entity.id]
                                                 THEN "Modified" ELSE "Skip"]
                      ELSE q[j]
<1>1. Len(r) = Len(q) /\ \A j \in 1 .. Len(q) : r[j] = Mark(j)
  BY BatchedSetsFacts DEF SameCommands, BatchedSets
<1>2. ASSUME NEW j \in 1 .. Len(q) PROVE MildCommand(Mark(j))
  <2> DEFINE c == q[j]  k == IF q[j].id \in w.has[q[i].entity.id] THEN "Modified" ELSE "Skip"
  <2>1. c \in CommandSet /\ MildCommand(c) /\ k \in {"Modified", "Skip"}
    BY DEF MildQueue
  <2>2. Mark(j) = IF j \in Chain(q, i) /\ c.kind = "Set" THEN [c EXCEPT !.kind = k] ELSE c
    OBVIOUS
  <2> HIDE DEF c, k, Mark
  <2>3. [c EXCEPT !.kind = k].kind = k /\ [c EXCEPT !.kind = k].id = c.id
    BY <2>1 DEF CommandSet
  <2> QED
    BY <2>1, <2>2, <2>3 DEF MildCommand
<1> HIDE DEF r, Mark
<1>3. MildQueue(r)
  BY <1>1, <1>2 DEF MildQueue
<1> QED
  BY <1>3 DEF r

\* A command adds nothing but its id.
LEMMA ApplyAdds ==
    ASSUME NEW w, WorldOK(w), NEW c \in CommandSet, Alive(w, c.entity), NEW v, v = Apply(w, c)
    PROVE  \A id \in Ids : \A x \in v.has[id] \ w.has[id] :
              c.kind \in {"Add", "Set", "AddModified"} /\ x = c.id
<1>1. CASE c.kind = "Delete" \/ (c.kind = "Add" /\ DeletesEntity(w, c.id))
  <2>1. v = Delete(w, c.entity)
    BY <1>1 DEF Apply, DeletesEntity
  <2> DEFINE doomed == Doomed(w, c.entity.id)
  <2>2. v = Without(w, doomed, doomed)
    BY <2>1 DEF Delete
  <2> HIDE DEF doomed
  <2>3. \A id \in Ids : v.has[id] \subseteq w.has[id]
    BY <2>2, WithoutShape
  <2> QED
    BY <2>3
<1>2. CASE c.kind # "Delete" /\ ~(c.kind = "Add" /\ DeletesEntity(w, c.id))
  <2> DEFINE i == c.entity.id
  <2>1. /\ v.alive = w.alive /\ i \in Ids
        /\ \A id \in Ids \ {i} : v.has[id] = w.has[id]
        /\ \A x \in AllIds : Lasts(x, w) \/ x \in PolicyPairs =>
              (x \in v.has[i] <=> (x \in w.has[i] /\ ~Drops(c, x)) \/ Adds(c, x))
    BY <1>2, ApplyShape
  <2>2. v.has[i] \subseteq SoundIds(v)
    BY <2>1, ApplyOK, WorldFacts
  <2> HIDE DEF i
  <2>3. \A x \in v.has[i] : x \in AllIds /\ Lasts(x, w)
    BY <2>1, <2>2 DEF SoundIds, Lasts
  <2> QED
    BY <2>1, <2>3 DEF Adds
<1> QED
  BY <1>1, <1>2

\* The flush goes on with what is mild.
LEMMA NextCommandMild ==
    ASSUME NEW st, StagesOK(st), NEW s \in Stages, MildStage(st[s]),
           NEW r, r = NextCommand(st, s)
    PROVE  MildStage(r[s])
<1>1. st \in [Stages -> StageSet]
  BY DEF StagesOK
<1>2. CASE st[s].at < Len(st[s].flushed)
  <2>1. r[s].phase = "visit" /\ r[s].flushed = st[s].flushed /\ r[s].queue = st[s].queue
    BY <1>1, <1>2, NextCommandShape
  <2> QED
    BY <2>1 DEF MildStage
<1>3. CASE ~(st[s].at < Len(st[s].flushed))
  <2>1. r = StartFlush(st, s)
    BY <1>3 DEF NextCommand
  <2> QED
    BY <2>1, StartFlushMild DEF MildStage
<1> QED
  BY <1>2, <1>3

\* Stage s is marked, and the mild commands of a batch.
Marked(st, s, phase, q, added) ==
    [st EXCEPT ![s].phase = phase, ![s].flushed = q, ![s].added = added]
Phased(st, s, phase) == [st EXCEPT ![s].phase = phase]

LEMMA MarkedMild ==
    ASSUME NEW st, StagesOK(st), NEW s \in Stages, \A t \in Stages : Emptied(st[t]), MildStage(st[s]),
           NEW phase \in {"visit", "set", "execute"}, NEW added \in SUBSET AllIds,
           phase = "set" => \A x \in added : MildId(x),
           NEW q, SameCommands(st[s].flushed, q), MildQueue(q),
           NEW r, r = Marked(st, s, phase, q, added)
    PROVE  StagesOK(r) /\ MildStage(r[s]) /\ MildQueue(r[s].queue)
<1> DEFINE x == st[s]  y == [x EXCEPT !.phase = phase, !.flushed = q, !.added = added]
<1>1. st \in [Stages -> StageSet] /\ x \in StageSet
  BY DEF StagesOK
<1>2. r = [st EXCEPT ![s].phase = phase, ![s].flushed = q, ![s].added = added]
  BY DEF Marked
<1>3. StagesOK(r)
  BY <1>2, MarkedFacts, Zenon
<1>4. r = [st EXCEPT ![s] = y]
  BY <1>1, <1>2, Zenon
<1>5. y.queue = x.queue /\ y.flushed = q /\ y.phase = phase /\ y.added = added
  BY <1>1 DEF StageSet
<1> HIDE DEF y
<1>6. r[s] = y
  BY <1>1, <1>4
<1> QED
  BY <1>3, <1>5, <1>6 DEF MildStage

\* ... or its phase changes.
LEMMA PhasedMild ==
    ASSUME NEW st, StagesOK(st), NEW s \in Stages, \A t \in Stages : Emptied(st[t]), MildStage(st[s]),
           NEW phase \in {"visit", "execute"}, NEW r, r = Phased(st, s, phase)
    PROVE  StagesOK(r) /\ MildStage(r[s]) /\ MildQueue(r[s].queue)
<1> DEFINE x == st[s]  q == x.flushed  added == x.added
           u == [st EXCEPT ![s].phase = phase, ![s].flushed = q, ![s].added = added]
<1>1. st \in [Stages -> StageSet] /\ x \in StageSet
  BY DEF StagesOK
<1>2. r = [st EXCEPT ![s].phase = phase]
  BY DEF Phased
<1>3. r = u
  BY <1>1, <1>2, Zenon DEF StageSet
<1>4. r = Marked(st, s, phase, q, added)
  BY <1>3 DEF Marked
<1>5. SameCommands(st[s].flushed, q) /\ added \in SUBSET AllIds /\ MildQueue(q)
  BY <1>1, StageFacts DEF SameCommands, MildStage
<1> HIDE DEF q, added, u
<1> QED
  BY <1>4, <1>5, MarkedMild

\* While the entity waits to be removed, a flush of the first stage stays mild, and
\* gives nothing a pair: it commits a batch,
LEMMA CommitBatchMild ==
    ASSUME IInv, NEW s \in Stages, MildStage(stage[s]), CommitBatch(s)
    PROVE  s = 0 => MildStage(stage'[0]) /\ FewerPairs(world, world')
<1> DEFINE phase == "set"
           q == stage[s].flushed  i == stage[s].at
           type == BatchedType(world, q, i)  w == Commit(world, q[i].entity, type)
           r == Batched(q, i)  added == BatchAdded(world, q, i)
           st == Marked(stage, s, phase, r, added)
           removed == IF w.has[q[i].entity.id] = world.has[q[i].entity.id] THEN {}
                      ELSE BatchRemoved(world, q, i)
           events == {[on |-> "OnRemove", entity |-> q[i].entity, id |-> c] : c \in removed}
<1>0. phase \in {"visit", "set", "execute"}
  OBVIOUS
<1>1. /\ 0 \in Stages /\ WorldOK(world) /\ StagesOK(stage) /\ stage \in [Stages -> StageSet]
      /\ \A t \in Stages : Emptied(stage[t])
  BY InvFacts DEF StagesOK
<1>2. Flushes(s) /\ Alive(world, q[i].entity) /\ Operate(w, st, events)
  BY DEF CommitBatch, Batches, Current, Marked
<1>3. i \in 1 .. Len(q) /\ q \in Seq(CommandSet) /\ i # 0
  BY <1>1, <1>2, CurrentFacts
<1>4. q[i].entity \in Handles /\ q[i].entity.id \in Ids
  BY <1>3 DEF CommandSet, Handles
<1>5. type \subseteq SoundIds(world) /\ added \subseteq type
  BY <1>1, <1>3, BatchedTypeOK DEF BatchAdded, BatchedType
<1>6. /\ \A x \in type : x \in world.has[q[i].entity.id] \/ MildId(x)
      /\ \A x \in added : MildId(x)
  BY <1>1, <1>3, BatchMild DEF MildStage
<1>7. MildQueue(r) /\ SameCommands(stage[s].flushed, r)
  BY <1>3, BatchedMild, BatchedFacts DEF MildStage
<1> HIDE DEF type
<1>8. WorldOK(w)
  BY <1>1, <1>2, <1>4, <1>5, CommitOK
<1>9. FewerPairs(world, w)
  <2>1. /\ w.has[q[i].entity.id] = type
        /\ \A id \in Ids \ {q[i].entity.id} : w.has[id] = world.has[id]
    BY <1>1, <1>4, CommitShape
  <2> QED
    BY <1>6, <2>1 DEF FewerPairs, MildId
<1> HIDE DEF phase, q, i, w, r, added, removed
<1>10. (\A ev \in events : ev.entity \in Handles) /\ MildEvents(events)
  BY <1>4 DEF MildEvents
<1> HIDE DEF events
<1>11. /\ added \in SUBSET AllIds
       /\ st = Marked(stage, s, phase, r, added)
  BY <1>5 DEF SoundIds
<1> HIDE DEF st
<1>12. StagesOK(st) /\ MildStage(st[s]) /\ MildQueue(st[s].queue)
  BY <1>0, <1>1, <1>6, <1>7, <1>11, MarkedMild
<1>13. ASSUME s = 0 PROVE MildStage(stage'[0]) /\ world'.has = w.has
  BY <1>1, <1>2, <1>8, <1>10, <1>12, <1>13, OperateMild
<1> QED
  BY <1>9, <1>13 DEF FewerPairs

\* ... or ends another entity with it,
LEMMA DeleteBatchMild ==
    ASSUME IInv, NEW s \in Stages, MildStage(stage[s]), DeleteBatch(s)
    PROVE  s = 0 => MildStage(stage'[0]) /\ FewerPairs(world, world')
<1> DEFINE phase == "execute"
           w == Delete(world, Current(s).entity)
           st == Phased(stage, s, phase)
           events == Events(world, w, {})
           doomed == Doomed(world, Current(s).entity.id)
<1>0. phase \in {"visit", "execute"}
  OBVIOUS
<1>1. /\ 0 \in Stages /\ WorldOK(world) /\ StagesOK(stage) /\ stage \in [Stages -> StageSet]
      /\ \A t \in Stages : Emptied(stage[t])
  BY InvFacts DEF StagesOK
<1>2. Alive(world, Current(s).entity) /\ (s = 0 => Operate(w, st, events))
  BY DEF DeleteBatch, EndsBatch, Batches, Phased
<1>3. WorldOK(w)
  BY <1>1, <1>2, DeleteOK DEF Alive
<1>4. w = Without(world, doomed, doomed)
  BY DEF Delete
<1> HIDE DEF w, doomed, phase
<1>5. FewerPairs(world, w) /\ MildEvents(events)
  BY <1>1, <1>4, WithoutMild
<1>6. \A ev \in events : ev.entity \in Handles
  BY <1>1, <1>3, EventsTyped
<1>7. st = Phased(stage, s, phase)
  OBVIOUS
<1> HIDE DEF st, events
<1>8. StagesOK(st) /\ MildStage(st[s]) /\ MildQueue(st[s].queue)
  BY <1>0, <1>1, <1>7, PhasedMild
<1>9. ASSUME s = 0 PROVE MildStage(stage'[0]) /\ world'.has = w.has
  BY <1>1, <1>2, <1>3, <1>5, <1>6, <1>8, <1>9, OperateMild
<1> QED
  BY <1>5, <1>9 DEF FewerPairs

\* ... puts the values of one in place,
LEMMA FinishBatchMild ==
    ASSUME IInv, NEW s \in Stages, MildStage(stage[s]), FinishBatch(s)
    PROVE  s = 0 => MildStage(stage'[0]) /\ FewerPairs(world, world')
<1> DEFINE phase == "execute"
           q == stage[s].flushed  i == stage[s].at  e == q[i].entity
           w == BatchedValues(world, q, i)  r == BatchedSets(world, q, i)
           st == Marked(stage, s, phase, r, {})
           events == {[on |-> "OnAdd", entity |-> e, id |-> c] : c \in stage[s].added \cap world.has[e.id]}
<1>0. phase \in {"visit", "set", "execute"} /\ phase # "set"
  OBVIOUS
<1>1. /\ 0 \in Stages /\ WorldOK(world) /\ StagesOK(stage) /\ stage \in [Stages -> StageSet]
      /\ \A t \in Stages : Emptied(stage[t])
  BY InvFacts DEF StagesOK
<1>2. Flushes(s) /\ stage[s].phase = "set" /\ Operate(w, st, events)
  BY Zenon DEF FinishBatch, Marked
<1>3. i \in 1 .. Len(q) /\ q \in Seq(CommandSet) /\ i # 0
  BY <1>1, <1>2, CurrentFacts, Zenon
<1>4. WorldOK(w)
  BY <1>1, <1>3, BatchedValuesOK
<1>5. w.has = world.has
  BY <1>1, <1>3, BatchedValuesShape DEF ValuesDone
<1>6. SameCommands(stage[s].flushed, r) /\ MildQueue(r)
  BY <1>3, BatchedSetsFacts, BatchedSetsMild DEF MildStage
<1>7. e \in Handles
  BY <1>3 DEF CommandSet
<1> HIDE DEF e
<1>8. (\A ev \in events : ev.entity \in Handles) /\ MildEvents(events)
  BY <1>2, <1>7 DEF MildEvents, MildStage
<1> HIDE DEF phase, q, i, w, r, events
<1>9. st = Marked(stage, s, phase, r, {})
  OBVIOUS
<1> HIDE DEF st
<1>10. StagesOK(st) /\ MildStage(st[s]) /\ MildQueue(st[s].queue)
  BY <1>0, <1>1, <1>6, <1>9, MarkedMild
<1>11. ASSUME s = 0 PROVE MildStage(stage'[0]) /\ world'.has = w.has
  BY <1>1, <1>2, <1>4, <1>8, <1>10, <1>11, OperateMild
<1> QED
  BY <1>5, <1>11 DEF FewerPairs

\* ... or does a command.
LEMMA ExecuteMild ==
    ASSUME IInv, MildStage(stage[0]), Execute(0)
    PROVE  MildStage(stage'[0]) /\ FewerPairs(world, world')
<1> DEFINE c == Current(0)
           w == Apply(world, c)
           st == Invalidated(stage, 0, c)
           sets == IF c.kind \in {"Set", "AddModified", "Modified"} THEN {<<c.entity.id, c.id>>} ELSE {}
<1>1. /\ 0 \in Stages /\ WorldOK(world) /\ StagesOK(stage)
      /\ stage[0] \in StageSet /\ StageOK(stage[0])
      /\ stage \in [Stages -> StageSet]
  BY InvFacts DEF StagesOK
<1>2. /\ Flushes(0)
      /\ \/ Discards(c) /\ stage' = NextCommand(st, 0) /\ UNCHANGED world
         \/ /\ ~Discards(c)
            /\ \E o \in Outcomes(w, st, EventsOf(CleanedUp(c), c, w)) :
                  world' = o.world /\ stage' = NextCommand(EndOperation(o.stage), 0)
  BY DEF Execute, Executes
<1>3. /\ stage[0].at # 0 /\ c \in CommandSet /\ c = stage[0].flushed[stage[0].at]
      /\ stage[0].at \in 1 .. Len(stage[0].flushed)
  BY <1>1, <1>2, CurrentFacts
<1>4. MildCommand(c)
  BY <1>3 DEF MildStage, MildQueue
<1>5. /\ st \in [Stages -> StageSet]
      /\ st[0] = [stage[0] EXCEPT !.stale = st[0].stale]
      /\ StageOK(st[0])
      /\ \A t \in Stages \ {0} : st[t] = stage[t]
  <2> HIDE DEF c
  <2> QED
    BY <1>1, <1>3, InvalidatedFacts
<1>6. CleanedUp(c) = world
  BY <1>3 DEF CleanedUp
<1>7. EventsOf(world, c, w) = IF Alive(world, c.entity) THEN Events(world, w, sets) ELSE {}
  BY DEF EventsOf
<1>8. \A y \in sets : y[1] \in Ids /\ MildId(y[2])
  BY <1>3, <1>4 DEF CommandSet, Handles, MildCommand
<1> HIDE DEF c, st, sets
<1>9. StagesOK(st)
  BY <1>1, <1>5 DEF StagesOK
<1>10. MildStage(st[0]) /\ st[0].at # 0
  <2> DEFINE x == stage[0]  stale == st[0].stale
  <2>1. x \in StageSet /\ st[0] = [x EXCEPT !.stale = stale] /\ MildStage(x) /\ x.at # 0
    BY <1>1, <1>3, <1>5
  <2> HIDE DEF x, stale
  <2>2. /\ st[0].at = x.at /\ st[0].queue = x.queue /\ st[0].flushed = x.flushed
        /\ st[0].phase = x.phase /\ st[0].added = x.added
    BY <2>1 DEF StageSet
  <2> QED
    BY <2>1, <2>2 DEF MildStage
<1>11. CASE Discards(c)
  <2>1. stage' = NextCommand(st, 0) /\ world' = world
    BY <1>2, <1>11
  <2> QED
    BY <1>1, <1>9, <1>10, <2>1, NextCommandMild DEF FewerPairs
<1>12. CASE ~Discards(c)
  <2>1. Alive(world, c.entity)
    BY <1>12 DEF Discards
  <2>2. PICK o \in Outcomes(w, st, Events(world, w, sets)) :
           world' = o.world /\ stage' = NextCommand(EndOperation(o.stage), 0)
    BY <1>2, <1>6, <1>7, <1>12, <2>1
  <2>3. WorldOK(w)
    BY <1>1, <1>3, <2>1, ApplyOK
  <2>4. \A id \in Ids : \A x \in w.has[id] \ world.has[id] : MildId(x)
    BY <1>1, <1>3, <1>4, <2>1, ApplyAdds DEF MildCommand
  <2> HIDE DEF w
  <2>5. FewerPairs(world, w)
    BY <2>4 DEF FewerPairs, MildId
  <2>6. \A ev \in Events(world, w, sets) : ev.entity \in Handles
    BY <1>1, <1>8, <2>3, EventsTyped
  <2>7. MildEvents(Events(world, w, sets))
    BY <1>8, <2>4, EventsMild
  <2>8. MildQueue(st[0].queue)
    BY <1>10 DEF MildStage
  <2> DEFINE events == Events(world, w, sets)
  <2> HIDE DEF events
  <2>9. /\ MildQueue(o.stage[0].queue) /\ o.world.has = w.has
        /\ o.stage[0].flushed = st[0].flushed /\ o.stage[0].phase = st[0].phase
        /\ o.stage[0].added = st[0].added
    BY <1>1, <1>9, <2>2, <2>3, <2>6, <2>7, <2>8, OutcomesMild DEF events
  <2>10. StagesOK(o.stage) /\ o.stage[0].at = st[0].at
    BY <1>1, <1>9, <2>2, <2>3, <2>6, OutcomesOK DEF events
  <2>11. MildStage(o.stage[0])
    BY <1>10, <2>9 DEF MildStage
  <2>12. stage' = NextCommand(o.stage, 0)
    BY <1>10, <2>2, <2>10 DEF EndOperation
  <2>13. MildStage(stage'[0])
    BY <1>1, <2>10, <2>11, <2>12, NextCommandMild
  <2> QED
    BY <2>2, <2>5, <2>9, <2>13 DEF FewerPairs
<1> QED
  BY <1>11, <1>12

\* ecs_delete up to the flush in its middle is the cleanup, which is answered.
LEMMA BeginDeleteOperates ==
    ASSUME 0 \in Stages, WorldOK(world), NEW e \in Handles, Alive(world, e),
           NEW st, BeginDelete(e, st), NEW w, w = CleanUp(world, e)
    PROVE  /\ WorldOK(w) /\ Unnamed(w, e) /\ MildEvents(Events(world, w, {}))
           /\ \A ev \in Events(world, w, {}) : ev.entity \in Handles
           /\ Operate(w, st, Events(world, w, {}))
           /\ deleting' = {e} /\ expected' = NoWorld
<1> DEFINE doomed == Doomed(world, e.id)
           ids == IF DiesWith(world, e.id, doomed) THEN doomed ELSE doomed \ {e.id}
<1>1. w = Without(world, ids, doomed)
  BY DEF CleanUp
<1>2. Operate(w, st, Events(world, w, {})) /\ deleting' = {e} /\ expected' = NoWorld
  BY DEF BeginDelete, Operate
<1> HIDE DEF ids, doomed
<1>3. WorldOK(w) /\ Unnamed(w, e)
  BY CleanUpOK DEF Alive, Unnamed
<1>4. MildEvents(Events(world, w, {}))
  BY <1>1, WithoutMild
<1>5. \A ev \in Events(world, w, {}) : ev.entity \in Handles
  BY <1>3, EventsTyped
<1> QED
  BY <1>2, <1>3, <1>4, <1>5

LEMMA BeginDeleteFacts ==
    ASSUME 0 \in Stages, WorldOK(world), NEW e \in Handles, Alive(world, e),
           NEW st, StagesOK(st), st[0].at = 0, st[0].queue = <<>>,
           \A t \in Stages \ {0} : Emptied(st[t]), BeginDelete(e, st)
    PROVE  /\ WorldOK(world') /\ StagesOK(stage') /\ SameDefers(st, stage')
           /\ \A t \in Stages : Emptied(stage'[t])
           /\ \A t \in Stages \ {0} : stage'[t] = st[t]
           /\ MildStage(stage'[0]) /\ Unnamed(world', e)
           /\ e \in Entity /\ deleting' = {e}
<1> DEFINE w == CleanUp(world, e)  events == Events(world, w, {})
<1>1. /\ WorldOK(w) /\ Unnamed(w, e) /\ MildEvents(events)
      /\ \A ev \in events : ev.entity \in Handles
      /\ Operate(w, st, events) /\ deleting' = {e}
  BY BeginDeleteOperates
<1>2. e \in Entity
  <2>1. e.id \in Ids /\ e.gen \in 0 .. MaxGen + 1 /\ e.gen <= MaxGen /\ e = [id |-> e.id, gen |-> e.gen]
    BY DEF Handles, Alive, WorldOK
  <2>2. e.gen \in 0 .. MaxGen
    BY <2>1, IdsAssumption
  <2> QED
    BY <2>1, <2>2 DEF Entity
<1> HIDE DEF w, events
<1>3. /\ WorldOK(world') /\ StagesOK(stage') /\ SameDefers(st, stage')
      /\ \A t \in Stages : Emptied(stage'[t])
      /\ \A t \in Stages \ {0} : stage'[t] = st[t]
  BY <1>1, OperateOK
<1>4. MildQueue(st[0].queue)
  BY DEF MildQueue
<1>5. MildStage(stage'[0]) /\ world'.has = w.has
  BY <1>1, <1>4, OperateMild
<1>6. Unnamed(world', e)
  BY <1>1, <1>5 DEF Unnamed
<1> QED
  BY <1>1, <1>2, <1>3, <1>5, <1>6

\* What stage s has left when its command was done, which no other stage sees.
LEMMA InvalidatedGoesOn ==
    ASSUME IInv, NEW s \in Stages, Flushes(s),
           NEW st, st = NextCommand(Invalidated(stage, s, Current(s)), s)
    PROVE  /\ StagesOK(st) /\ SameDefers(stage, st) /\ \A t \in Stages : Emptied(st[t])
           /\ \A t \in Stages \ {s} : st[t] = stage[t]
           /\ QueuesKept(stage, st)
<1> DEFINE c == Current(s)  u == Invalidated(stage, s, c)
<1>1. /\ StagesOK(stage) /\ stage \in [Stages -> StageSet]
      /\ \A t \in Stages : stage[t] \in StageSet /\ StageOK(stage[t]) /\ Emptied(stage[t])
  BY InvFacts DEF StagesOK
<1>2. stage[s].at # 0 /\ c = stage[s].flushed[stage[s].at]
  BY CurrentFacts
<1> HIDE DEF c
<1>3. /\ u \in [Stages -> StageSet]
      /\ u[s] = [stage[s] EXCEPT !.stale = u[s].stale]
      /\ StageOK(u[s]) /\ Ahead(u[s], u[s].at + 1)
      /\ \A t \in Stages \ {s} : u[t] = stage[t]
  BY <1>1, <1>2, InvalidatedFacts
<1> HIDE DEF u
<1>4. u[s].at = stage[s].at /\ u[s].defer = stage[s].defer
  <2> DEFINE x == stage[s]  stale == u[s].stale
  <2>1. x \in StageSet /\ u[s] = [x EXCEPT !.stale = stale]
    BY <1>1, <1>3
  <2> HIDE DEF x, stale
  <2>2. u[s].at = x.at /\ u[s].defer = x.defer
    BY <2>1 DEF StageSet
  <2> QED
    BY <2>2 DEF x
<1>5. /\ StagesOK(u) /\ SameDefers(stage, u) /\ u[s].at # 0
      /\ \A t \in Stages \ {s} : Emptied(u[t])
  BY <1>1, <1>2, <1>3, <1>4 DEF StagesOK, SameDefers
<1>6. st = NextCommand(u, s)
  BY DEF u, c
<1>7. /\ StagesOK(st) /\ SameDefers(u, st) /\ \A t \in Stages : Emptied(st[t])
      /\ \A t \in Stages \ {s} : st[t] = u[t]
  BY <1>3, <1>5, <1>6, GoesOn
<1>8. QueuesKept(stage, st)
  <2>1. QueuesKept(stage, u)
    BY <1>3, <1>5 DEF QueuesKept
  <2>2. QueuesKept(u, st)
    BY <1>3, <1>5, <1>6, NextCommandShape
  <2> QED
    BY <2>1, <2>2, QueuesKeptTrans
<1> QED
  BY <1>3, <1>5, <1>7, <1>8 DEF SameDefers

\* The stages from which ecs_delete begins, and the entity it deletes.
BeginsFrom(s, e, st) ==
    /\ e \in Handles /\ Alive(world, e) /\ BeginDelete(e, st)
    /\ StagesOK(st) /\ SameDefers(stage, st) /\ \A t \in Stages : Emptied(st[t])
    /\ (\A t \in Stages \ {s} : st[t] = stage[t]) /\ QueuesKept(stage, st)
    /\ st[0] = stage[0] /\ st[0].at = 0 /\ st[0].defer = 0 /\ st[0].queue = <<>>
    /\ UNCHANGED <<stageCount, readonly, merging>>

LEMMA DirectDeleteBegins ==
    ASSUME IInv, NEW c \in CommandsOf(LivingEntities), DirectDelete(c)
    PROVE  BeginsFrom(0, c.entity, stage)
<1>1. /\ 0 \in Stages /\ WorldOK(world) /\ StagesOK(stage)
      /\ \A t \in Stages : Emptied(stage[t])
  BY InvFacts
<1>2. c.entity \in Handles /\ Alive(world, c.entity)
  BY <1>1, CommandsOfFacts DEF NewCommand, CommandSet
<1>3. /\ ~Flushing(stage) /\ stage[0].defer = 0 /\ BeginDelete(c.entity, stage)
      /\ UNCHANGED <<stageCount, readonly, merging>>
  BY DEF DirectDelete, Idle
<1>4. stage[0].at = 0
  BY <1>1, <1>3, IdleFacts
<1>5. stage[0].queue = <<>>
  BY <1>1, <1>3, <1>4 DEF Emptied
<1>6. SameDefers(stage, stage) /\ QueuesKept(stage, stage)
  BY DEF SameDefers, QueuesKept
<1> QED
  BY <1>1, <1>2, <1>3, <1>4, <1>5, <1>6 DEF BeginsFrom

LEMMA BeginDeleteBatchBegins ==
    ASSUME IInv, OthersFlushed(stage), NEW s \in Stages, BeginDeleteBatch(s)
    PROVE  BeginsFrom(s, Current(s).entity, Phased(stage, s, "execute"))
<1> DEFINE st == Phased(stage, s, "execute")
<1>1. /\ 0 \in Stages /\ WorldOK(world) /\ StagesOK(stage)
      /\ \A t \in Stages : Emptied(stage[t])
  BY InvFacts
<1>2. /\ s # 0 /\ Flushes(s) /\ Alive(world, Current(s).entity)
      /\ BeginDelete(Current(s).entity, st)
      /\ UNCHANGED <<stageCount, readonly, merging>>
  BY DEF BeginDeleteBatch, EndsBatch, Batches, Phased
<1>3. stage[s].at # 0 /\ Current(s) \in CommandSet
  BY <1>2, CurrentFacts
<1>4. stage[0].at = 0 /\ stage[0].defer = 0
  BY <1>2, <1>3 DEF Flushes, OthersFlushed
<1>5. stage[0].queue = <<>>
  BY <1>1, <1>4 DEF Emptied
<1>6. /\ StagesOK(st) /\ SameDefers(stage, st) /\ \A t \in Stages : Emptied(st[t])
      /\ (\A t \in Stages \ {s} : st[t] = stage[t]) /\ QueuesKept(stage, st)
  <2> DEFINE r == [stage EXCEPT ![s].phase = "execute"]
  <2>1. /\ StagesOK(r) /\ SameDefers(stage, r) /\ \A t \in Stages : Emptied(r[t])
        /\ \A t \in Stages \ {s} : r[t] = stage[t]
        /\ r[s].at = stage[s].at
    BY <1>1, PhasedFacts
  <2>2. st = r
    BY DEF Phased
  <2> HIDE DEF st, r
  <2>3. QueuesKept(stage, st)
    BY <1>3, <2>1, <2>2 DEF QueuesKept
  <2> QED
    BY <2>1, <2>2, <2>3
<1> HIDE DEF st
<1>7. st[0] = stage[0]
  BY <1>1, <1>2, <1>6
<1> QED
  BY <1>2, <1>3, <1>4, <1>5, <1>6, <1>7 DEF BeginsFrom, CommandSet, st

LEMMA BeginExecuteBegins ==
    ASSUME IInv, OthersFlushed(stage), NEW s \in Stages, BeginExecute(s)
    PROVE  BeginsFrom(s, Current(s).entity, NextCommand(Invalidated(stage, s, Current(s)), s))
<1> DEFINE st == NextCommand(Invalidated(stage, s, Current(s)), s)
<1>1. /\ 0 \in Stages /\ WorldOK(world) /\ \A t \in Stages : Emptied(stage[t])
  BY InvFacts
<1>2. /\ s # 0 /\ Flushes(s) /\ Alive(world, Current(s).entity)
      /\ BeginDelete(Current(s).entity, st)
      /\ UNCHANGED <<stageCount, readonly, merging>>
  BY DEF BeginExecute, Executes, Discards
<1>3. stage[s].at # 0 /\ Current(s) \in CommandSet
  BY <1>2, CurrentFacts
<1>4. stage[0].at = 0 /\ stage[0].defer = 0
  BY <1>2, <1>3 DEF Flushes, OthersFlushed
<1>5. stage[0].queue = <<>>
  BY <1>1, <1>4 DEF Emptied
<1>6. /\ StagesOK(st) /\ SameDefers(stage, st) /\ \A t \in Stages : Emptied(st[t])
      /\ (\A t \in Stages \ {s} : st[t] = stage[t]) /\ QueuesKept(stage, st)
  BY <1>2, InvalidatedGoesOn
<1> HIDE DEF st
<1>7. st[0] = stage[0]
  BY <1>1, <1>2, <1>6
<1> QED
  BY <1>2, <1>3, <1>4, <1>5, <1>6, <1>7 DEF BeginsFrom, CommandSet, st

\* The invariants hold when ecs_delete has begun.
LEMMA BeginsKeeps ==
    ASSUME IInv, NEW s \in Stages, NEW e, NEW st, BeginsFrom(s, e, st)
    PROVE  /\ IInv' /\ Moves(s)
           /\ stage'[0].defer = 0 /\ MildStage(stage'[0])
           /\ deleting' = {e} /\ e \in Entity /\ Unnamed(world', e)
<1>1. 0 \in Stages /\ WorldOK(world)
  BY InvFacts
<1>2. /\ e \in Handles /\ Alive(world, e) /\ BeginDelete(e, st)
      /\ StagesOK(st) /\ SameDefers(stage, st) /\ \A t \in Stages : Emptied(st[t])
      /\ \A t \in Stages \ {s} : st[t] = stage[t]
      /\ st[0].at = 0 /\ st[0].defer = 0 /\ st[0].queue = <<>>
      /\ UNCHANGED <<stageCount, readonly, merging>>
  BY DEF BeginsFrom
<1>3. /\ WorldOK(world') /\ StagesOK(stage') /\ SameDefers(st, stage')
      /\ \A t \in Stages : Emptied(stage'[t])
      /\ \A t \in Stages \ {0} : stage'[t] = st[t]
      /\ MildStage(stage'[0]) /\ Unnamed(world', e)
      /\ e \in Entity /\ deleting' = {e}
  BY <1>1, <1>2, BeginDeleteFacts
<1>4. SameDefers(stage, stage') /\ \A t \in Stages \ {0, s} : stage'[t] = stage[t]
  BY <1>2, <1>3 DEF SameDefers
<1>5. stage'[0].defer = 0
  BY <1>1, <1>2, <1>3 DEF SameDefers
<1>6. IInv'
  BY <1>2, <1>3, <1>4, DefersKept, KeptByParts
<1> QED
  BY <1>3, <1>4, <1>5, <1>6 DEF Moves

\* ... and when the entity is removed, which nothing names.
FinishWorld(e) == IF Alive(world, e) THEN Removed(world, e) ELSE world

LEMMA FinishDeleteFacts ==
    ASSUME IInv, DInv, FinishDelete
    PROVE  /\ stage[0].at = 0 /\ stage[0].queue = <<>>
           /\ \E e \in deleting :
                 /\ WorldOK(FinishWorld(e))
                 /\ \A ev \in Events(world, FinishWorld(e), {}) : ev.entity \in Handles
                 /\ Operate(FinishWorld(e), stage, Events(world, FinishWorld(e), {}))
           /\ deleting' = {} /\ expected' = NoWorld
           /\ UNCHANGED <<stageCount, readonly, merging>>
<1>1. 0 \in Stages /\ WorldOK(world) /\ Emptied(stage[0])
  BY InvFacts
<1>2. PICK e \in deleting : Operate(FinishWorld(e), stage, Events(world, FinishWorld(e), {}))
  BY DEF FinishDelete, FinishWorld
<1>3. stage[0].defer = 0 /\ Unnamed(world, e)
  BY <1>2 DEF DInv
<1>4. stage[0].at = 0
  BY DEF FinishDelete
<1> DEFINE w == FinishWorld(e)
<1>5. WorldOK(w)
  BY <1>1, <1>3, RemovedOK DEF FinishWorld, Alive, Unnamed
<1> HIDE DEF w
<1>6. \A ev \in Events(world, w, {}) : ev.entity \in Handles
  BY <1>1, <1>5, EventsTyped
<1>7. stage[0].queue = <<>>
  BY <1>1, <1>3, <1>4 DEF Emptied
<1> QED
  BY <1>2, <1>4, <1>5, <1>6, <1>7 DEF w, FinishDelete

LEMMA FinishDeleteKeeps ==
    ASSUME IInv, DInv, FinishDelete
    PROVE  IInv' /\ Moves(0)
<1>1. /\ 0 \in Stages /\ WorldOK(world) /\ StagesOK(stage)
      /\ \A t \in Stages : Emptied(stage[t])
  BY InvFacts
<1>2. PICK e \in deleting :
         /\ WorldOK(FinishWorld(e))
         /\ \A ev \in Events(world, FinishWorld(e), {}) : ev.entity \in Handles
         /\ Operate(FinishWorld(e), stage, Events(world, FinishWorld(e), {}))
  BY FinishDeleteFacts
<1>3. /\ WorldOK(world')
      /\ StagesOK(stage') /\ SameDefers(stage, stage')
      /\ \A s \in Stages : Emptied(stage'[s])
      /\ \A s \in Stages \ {0} : stage'[s] = stage[s]
  BY <1>1, <1>2, OperateOK
<1>4. UNCHANGED <<stageCount, readonly, merging>>
  BY FinishDeleteFacts
<1> QED
  BY <1>3, <1>4, DefersKept, KeptByParts DEF Moves

\* The invariant of deletions is kept by its parts,
LEMMA DeletingKeptByParts ==
    ASSUME stageCount' = stageCount, OthersFlushed(stage'), deleting' \subseteq Entity,
           deleting' # {} =>
              /\ stage'[0].defer = 0 /\ MildStage(stage'[0])
              /\ \A e \in deleting' : Unnamed(world', e)
    PROVE  DInv'
<1>1. Stages' = Stages
  BY DEF Stages
<1>2. OthersFlushed(stage)'
  BY <1>1 DEF OthersFlushed
<1>3. MildStage(stage'[0]) => MildStage(stage[0])'
  BY DEF MildStage, MildQueue, MildCommand, MildId
<1>4. \A e \in deleting' : Unnamed(world', e) <=> Unnamed(world, e)'
  BY DEF Unnamed
<1> QED
  BY <1>2, <1>3, <1>4 DEF DInv

\* ... by steps of game code, which flush the first stage at most,
LEMMA IdleDeletes ==
    ASSUME IInv, Idle, stageCount' = stageCount, deleting' = deleting,
           \A t \in Stages \ {0} : stage'[t].at = stage[t].at
    PROVE  DInv'
<1>1. \A t \in Stages : stage[t].at = 0
  BY IdleFacts DEF Idle
<1>2. OthersFlushed(stage')
  BY <1>1 DEF OthersFlushed
<1>3. deleting' = {}
  BY DEF Idle
<1> QED
  BY <1>2, <1>3, DeletingKeptByParts

\* ... and by steps of a flush, which leaves the counts of nested defers.
LEMMA MovesFlushed ==
    ASSUME 0 \in Stages, OthersFlushed(stage), NEW s \in Stages, s # 0 => stage[s].at # 0, Moves(s)
    PROVE  OthersFlushed(stage')
<1> SUFFICES ASSUME NEW t \in Stages \ {0}, stage'[t].at # 0 PROVE stage'[0].defer = 0
  BY DEF OthersFlushed
<1>1. stage'[0].defer = stage[0].defer
  BY DEF Moves, SameDefers
<1>2. CASE t = s
  BY <1>1, <1>2 DEF OthersFlushed
<1>3. CASE t # s
  <2>1. stage'[t] = stage[t]
    BY <1>3 DEF Moves
  <2> QED
    BY <1>1, <2>1 DEF OthersFlushed
<1> QED
  BY <1>2, <1>3

LEMMA FlushDeletes ==
    ASSUME IInv, DInv, NEW s \in Stages, Flushes(s), Moves(s), stageCount' = stageCount,
           deleting' = deleting,
           s = 0 /\ MildStage(stage[0]) => MildStage(stage'[0]) /\ FewerPairs(world, world')
    PROVE  DInv'
<1>1. 0 \in Stages
  BY InvFacts
<1>2. OthersFlushed(stage')
  BY <1>1, MovesFlushed DEF DInv, Flushes
<1>3. ASSUME deleting' # {}
      PROVE  /\ stage'[0].defer = 0 /\ MildStage(stage'[0])
             /\ \A e \in deleting' : Unnamed(world', e)
  <2>1. s = 0
    BY <1>3 DEF Flushes
  <2>2. stage[0].defer = 0 /\ MildStage(stage[0]) /\ \A e \in deleting : Unnamed(world, e)
    BY <1>3 DEF DInv
  <2>3. MildStage(stage'[0]) /\ FewerPairs(world, world')
    BY <2>1, <2>2
  <2>4. stage'[0].defer = 0
    BY <1>1, <2>2 DEF Moves, SameDefers
  <2>5. \A e \in deleting' : Unnamed(world', e)
    BY <2>2, <2>3 DEF Unnamed, FewerPairs
  <2> QED
    BY <2>3, <2>4, <2>5
<1> QED
  BY <1>2, <1>3, DeletingKeptByParts DEF DInv

LEMMA BeginsDeletes ==
    ASSUME IInv, DInv, NEW s \in Stages, s # 0 => stage[s].at # 0, NEW e, NEW st, BeginsFrom(s, e, st)
    PROVE  IInv' /\ DInv'
<1>1. 0 \in Stages
  BY InvFacts
<1>2. /\ IInv' /\ Moves(s)
      /\ stage'[0].defer = 0 /\ MildStage(stage'[0])
      /\ deleting' = {e} /\ e \in Entity /\ Unnamed(world', e)
  BY BeginsKeeps
<1>3. OthersFlushed(stage')
  BY <1>1, <1>2, MovesFlushed DEF DInv
<1>4. stageCount' = stageCount
  BY DEF BeginsFrom
<1> QED
  BY <1>2, <1>3, <1>4, DeletingKeptByParts

LEMMA FinishDeletes ==
    ASSUME IInv, DInv, FinishDelete
    PROVE  DInv'
<1>1. 0 \in Stages
  BY InvFacts
<1>2. Moves(0) /\ deleting' = {} /\ stageCount' = stageCount
  BY FinishDeleteFacts, FinishDeleteKeeps
<1>3. OthersFlushed(stage')
  BY <1>1, <1>2, MovesFlushed DEF DInv
<1> QED
  BY <1>2, <1>3, DeletingKeptByParts

\* A stage that is merged after the first finds it merged.
LEMMA MergeStageDeletes ==
    ASSUME IInv, MergeStage
    PROVE  DInv'
<1>1. /\ 0 \in Stages /\ stageCount \in Nat /\ merging \in 0 .. stageCount /\ DefersSound
  BY InvFacts
<1>2. /\ merging < stageCount /\ \A t \in Stages : stage[t].at = 0
      /\ DeferEndOf(merging) /\ stageCount' = stageCount /\ deleting' = {}
  BY IdleFacts DEF MergeStage
<1>3. merging \in Stages /\ ~readonly /\ stage[merging].defer = 1
  BY <1>1, <1>2 DEF DefersSound, Stages
<1>4. \A t \in Stages \ {merging} : stage'[t] = stage[t]
  BY <1>2, <1>3, DeferEndOfOK
<1>5. OthersFlushed(stage')
  <2> SUFFICES ASSUME NEW t \in Stages \ {0}, stage'[t].at # 0 PROVE stage'[0].defer = 0
    BY DEF OthersFlushed
  <2>1. t = merging
    BY <1>2, <1>4
  <2>2. stage'[0] = stage[0]
    BY <1>1, <1>4, <2>1
  <2>3. stage[0].defer = 0
    BY <1>1, <1>2, <1>3, <2>1 DEF DefersSound
  <2> QED
    BY <2>2, <2>3
<1> QED
  BY <1>2, <1>5, DeletingKeptByParts

\* Nothing that game code does flushes another stage than the first.
LEMMA DeferBeginDeletes ==
    ASSUME IInv, DeferBegin
    PROVE  DInv'
<1>1. StagesOK(stage) /\ stage \in [Stages -> StageSet]
  BY InvFacts DEF StagesOK
<1>2. \A t \in Stages \ {0} : stage'[t] = stage[t]
  BY <1>1 DEF DeferBegin
<1> QED
  BY <1>2, IdleDeletes DEF DeferBegin

LEMMA DeferSuspendDeletes ==
    ASSUME IInv, DeferSuspend
    PROVE  DInv'
<1>1. StagesOK(stage) /\ stage \in [Stages -> StageSet]
  BY InvFacts DEF StagesOK
<1>2. \A t \in Stages \ {0} : stage'[t] = stage[t]
  BY <1>1 DEF DeferSuspend
<1> QED
  BY <1>2, IdleDeletes DEF DeferSuspend

LEMMA DeferEndDeletes ==
    ASSUME IInv, DeferEnd
    PROVE  DInv'
<1>1. 0 \in Stages /\ stage[0].at = 0
  BY InvFacts, IdleFacts DEF DeferEnd, Idle
<1>2. \A t \in Stages \ {0} : stage'[t] = stage[t]
  BY <1>1, DeferEndOfOK DEF DeferEnd
<1> QED
  BY <1>2, IdleDeletes DEF DeferEnd

LEMMA ReadonlyBeginDeletes ==
    ASSUME IInv, ReadonlyBegin
    PROVE  DInv'
<1>1. \A s \in Stages : stage[s] \in StageSet
  BY InvFacts
<1>2. stage' = [s \in Stages |-> [stage[s] EXCEPT !.defer = @ + 1]]
  BY DEF ReadonlyBegin
<1>3. \A t \in Stages : stage'[t].at = stage[t].at
  BY <1>1, <1>2 DEF StageSet
<1> QED
  BY <1>3, IdleDeletes DEF ReadonlyBegin

LEMMA DeferDeletes ==
    ASSUME IInv, NEW c \in CommandsOf(LivingEntities), NEW s \in Stages, Defer(s, c)
    PROVE  DInv'
<1>1. WorldOK(world) /\ stage \in [Stages -> StageSet] /\ StageOK(stage[s])
  BY InvFacts DEF StagesOK
<1>2. NewCommand(c)
  BY <1>1, CommandsOfFacts
<1>3. stage' = Put(stage, s, world, c)
  BY DEF Defer
<1>4. stage'[s].at = stage[s].at /\ \A t \in Stages \ {s} : stage'[t] = stage[t]
  BY <1>1, <1>2, <1>3, PutFacts
<1> QED
  BY <1>4, IdleDeletes DEF Defer

LEMMA DirectDeletes ==
    ASSUME IInv, NEW c \in CommandsOf(LivingEntities), Direct(c)
    PROVE  DInv'
<1>1. \A t \in Stages \ {0} : stage'[t] = stage[t]
  BY DirectKeeps DEF Moves
<1> QED
  BY <1>1, IdleDeletes DEF Direct

\* Deletions are safe at first, and every step leaves them so.
LEMMA InitDInv == Init => DInv
<1> SUFFICES ASSUME Init PROVE DInv
  OBVIOUS
<1>1. \A s \in Stages : stage[s].at = 0
  BY DEF Init, Empty
<1> QED
  BY <1>1 DEF DInv, OthersFlushed, Init

-----------------------------------------------------------------------------
(* The theorems                                                              *)

\* Any world of entities of the first generation is sound, and nothing is queued.
LEMMA InitIInv == Init => IInv
<1> SUFFICES ASSUME Init PROVE IInv
  OBVIOUS
<1>1. /\ stageCount \in 1 .. MaxStages /\ stageCount \in Nat
      /\ stage = [s \in Stages |-> Empty]
      /\ readonly = FALSE /\ merging = stageCount
  BY BoundsAssumption DEF Init
<1>2. WorldOK(world)
  <2>1. PICK has \in [Ids -> SUBSET AllIds] :
           world = [alive |-> Ids, gen |-> [id \in Ids |-> 0], has |-> has,
                    value |-> [id \in Ids |-> [c \in Components |-> Default]]]
    BY Zenon DEF Init
  <2>2. world \in WorldSet
    BY <2>1, IdsAssumption DEF WorldSet
  <2>3. \A id \in world.alive : world.gen[id] <= MaxGen
    <3>1. \A id \in world.alive : world.gen[id] = 0
      BY <2>1, Zenon
    <3> QED
      BY <3>1, IdsAssumption
  <2>4. ASSUME NEW id \in world.alive, NEW p \in world.has[id] \cap Pairs PROVE p.target \in world.alive
    <3>1. p.target \in Targets
      BY DEF Pairs
    <3> QED
      BY <2>1, <3>1, DeletePolicyAssumption
  <2>5. \A id \in Ids \ world.alive : world.has[id] = {}
    BY <2>1, Zenon
  <2> QED
    BY <2>2, <2>3, <2>4, <2>5 DEF WorldOK
<1>3. Empty \in StageSet /\ StageOK(Empty) /\ Emptied(Empty) /\ Empty.defer = 0
  <2>1. NoEntry \in Entries
    BY DEF NoEntry, Entries
  <2>2. <<>> \in Seq(CommandSet) /\ Len(<<>>) = 0
    OBVIOUS
  <2>3. 0 \in -MaxDepth .. MaxDepth
    BY BoundsAssumption
  <2>4. Empty \in StageSet
    BY <2>1, <2>2, <2>3 DEF Empty, StageSet
  <2>5. StageOK(Empty)
    <3>1. NoEntry.first = 0
      BY DEF NoEntry
    <3>2. \A id \in Ids : Empty.entries[id] = NoEntry /\ Empty.stale[id] = NoEntry
      BY DEF Empty
    <3>3. QueueOK(Empty)
      BY <3>1, <3>2 DEF QueueOK, Chained
    <3>4. Empty.at <= Len(Empty.flushed)
      BY <2>2 DEF Empty
    <3> QED
      BY <3>2, <3>3, <3>4 DEF StageOK, Ahead
  <2> QED
    BY <2>4, <2>5 DEF Emptied, Empty
<1>4. StagesOK(stage) /\ \A s \in Stages : Emptied(stage[s]) /\ stage[s].defer = 0
  BY <1>1, <1>3 DEF StagesOK
<1>5. DefersSound
  <2>1. \A s \in Stages : ~(s >= merging)
    BY <1>1 DEF Stages
  <2>2. merging \in 0 .. stageCount
    BY <1>1
  <2> QED
    BY <1>1, <1>4, <2>1, <2>2, Zenon DEF DefersSound
<1> QED
  BY <1>2, <1>4, <1>5 DEF IInv

\* Every step keeps the invariant, and what it rests on while an entity is deleted.
LEMMA NextIInv == IInv /\ DInv /\ [Next]_vars => IInv'
<1> SUFFICES ASSUME IInv, DInv, [Next]_vars PROVE IInv'
  OBVIOUS
<1>1. CASE DeferBegin
  BY <1>1, DeferBeginKeeps
<1>2. CASE DeferEnd
  BY <1>2, DeferEndKeeps
<1>3. CASE DeferSuspend
  BY <1>3, DeferSuspendKeeps
<1>4. CASE ReadonlyBegin
  BY <1>4, ReadonlyBeginKeeps
<1>5. CASE ReadonlyEnd
  BY <1>5, ReadonlyEndKeeps
<1>6. CASE MergeStage
  BY <1>6, MergeStageKeeps
<1>7. ASSUME NEW c \in CommandsOf(LivingEntities), Direct(c) PROVE IInv'
  BY <1>7, DirectKeeps
<1>8. ASSUME NEW c \in CommandsOf(LivingEntities), DirectDelete(c) PROVE IInv'
  BY <1>8, InvFacts, DirectDeleteBegins, BeginsKeeps
<1>9. ASSUME NEW c \in CommandsOf(LivingEntities), DirectSuspended(c) PROVE IInv'
  BY <1>9, DirectSuspendedKeeps
<1>10. ASSUME NEW c \in CommandsOf(LivingEntities), NEW s \in Stages, Defer(s, c) PROVE IInv'
  BY <1>10, DeferKeeps
<1>11. ASSUME NEW id \in Ids, New(id) PROVE IInv'
  BY <1>11, NewKeeps
<1>12. CASE FinishDelete
  BY <1>12, FinishDeleteKeeps
<1>13. ASSUME NEW s \in Stages, CommitBatch(s) PROVE IInv'
  BY <1>13, CommitBatchKeeps
<1>14. ASSUME NEW s \in Stages, DeleteBatch(s) PROVE IInv'
  BY <1>14, DeleteBatchKeeps
<1>15. ASSUME NEW s \in Stages, BeginDeleteBatch(s) PROVE IInv'
  BY <1>15, BeginDeleteBatchBegins, BeginsKeeps DEF DInv
<1>16. ASSUME NEW s \in Stages, FinishBatch(s) PROVE IInv'
  BY <1>16, FinishBatchKeeps
<1>17. ASSUME NEW s \in Stages, Execute(s) PROVE IInv'
  BY <1>17, ExecuteKeeps
<1>18. ASSUME NEW s \in Stages, BeginExecute(s) PROVE IInv'
  BY <1>18, BeginExecuteBegins, BeginsKeeps DEF DInv
<1>19. CASE UNCHANGED vars
  <2>1. UNCHANGED <<world, stageCount, stage, readonly, merging>>
    BY <1>19 DEF vars
  <2>2. SameDefers(stage, stage')
    BY <2>1 DEF SameDefers
  <2> QED
    BY <2>1, <2>2, InvFacts, DefersKept, KeptByParts
<1> QED
  BY <1>1, <1>2, <1>3, <1>4, <1>5, <1>6, <1>7, <1>8, <1>9, <1>10, <1>11, <1>12, <1>13, <1>14, <1>15,
     <1>16, <1>17, <1>18, <1>19 DEF Next

LEMMA NextDInv == IInv /\ DInv /\ [Next]_vars => DInv'
<1> SUFFICES ASSUME IInv, DInv, [Next]_vars PROVE DInv'
  OBVIOUS
<1>1. CASE DeferBegin
  BY <1>1, DeferBeginDeletes
<1>2. CASE DeferEnd
  BY <1>2, DeferEndDeletes
<1>3. CASE DeferSuspend
  BY <1>3, DeferSuspendDeletes
<1>4. CASE ReadonlyBegin
  BY <1>4, ReadonlyBeginDeletes
<1>5. CASE ReadonlyEnd
  BY <1>5, IdleDeletes DEF ReadonlyEnd
<1>6. CASE MergeStage
  BY <1>6, MergeStageDeletes
<1>7. ASSUME NEW c \in CommandsOf(LivingEntities), Direct(c) PROVE DInv'
  BY <1>7, DirectDeletes
<1>8. ASSUME NEW c \in CommandsOf(LivingEntities), DirectDelete(c) PROVE DInv'
  BY <1>8, InvFacts, DirectDeleteBegins, BeginsDeletes
<1>9. ASSUME NEW c \in CommandsOf(LivingEntities), DirectSuspended(c) PROVE DInv'
  BY <1>9, IdleDeletes DEF DirectSuspended
<1>10. ASSUME NEW c \in CommandsOf(LivingEntities), NEW s \in Stages, Defer(s, c) PROVE DInv'
  BY <1>10, DeferDeletes
<1>11. ASSUME NEW id \in Ids, New(id) PROVE DInv'
  BY <1>11, IdleDeletes DEF New
<1>12. CASE FinishDelete
  BY <1>12, FinishDeletes
<1>13. ASSUME NEW s \in Stages, CommitBatch(s) PROVE DInv'
  <2>1. Flushes(s) /\ UNCHANGED <<stageCount, deleting>>
    BY <1>13 DEF CommitBatch, Batches
  <2>2. Moves(s)
    BY <1>13, CommitBatchKeeps
  <2>3. MildStage(stage[s]) => (s = 0 => MildStage(stage'[0]) /\ FewerPairs(world, world'))
    BY <1>13, CommitBatchMild
  <2> QED
    BY <2>1, <2>2, <2>3, FlushDeletes
<1>14. ASSUME NEW s \in Stages, DeleteBatch(s) PROVE DInv'
  <2>1. Flushes(s) /\ UNCHANGED <<stageCount, deleting>>
    BY <1>14 DEF DeleteBatch, EndsBatch, Batches
  <2>2. Moves(s)
    BY <1>14, DeleteBatchKeeps
  <2>3. MildStage(stage[s]) => (s = 0 => MildStage(stage'[0]) /\ FewerPairs(world, world'))
    BY <1>14, DeleteBatchMild
  <2> QED
    BY <2>1, <2>2, <2>3, FlushDeletes
<1>15. ASSUME NEW s \in Stages, BeginDeleteBatch(s) PROVE DInv'
  <2>1. stage[s].at # 0
    BY <1>15 DEF BeginDeleteBatch, EndsBatch, Batches, Flushes
  <2> QED
    BY <1>15, <2>1, BeginDeleteBatchBegins, BeginsDeletes DEF DInv
<1>16. ASSUME NEW s \in Stages, FinishBatch(s) PROVE DInv'
  <2>1. Flushes(s) /\ UNCHANGED <<stageCount, deleting>>
    BY <1>16 DEF FinishBatch
  <2>2. Moves(s)
    BY <1>16, FinishBatchKeeps
  <2>3. MildStage(stage[s]) => (s = 0 => MildStage(stage'[0]) /\ FewerPairs(world, world'))
    BY <1>16, FinishBatchMild
  <2> QED
    BY <2>1, <2>2, <2>3, FlushDeletes
<1>17. ASSUME NEW s \in Stages, Execute(s) PROVE DInv'
  <2>1. Flushes(s) /\ UNCHANGED <<stageCount, deleting>>
    BY <1>17 DEF Execute, Executes
  <2>2. Moves(s)
    BY <1>17, ExecuteKeeps
  <2>3. s = 0 /\ MildStage(stage[0]) => MildStage(stage'[0]) /\ FewerPairs(world, world')
    BY <1>17, ExecuteMild
  <2> QED
    BY <2>1, <2>2, <2>3, FlushDeletes
<1>18. ASSUME NEW s \in Stages, BeginExecute(s) PROVE DInv'
  <2>1. stage[s].at # 0
    BY <1>18 DEF BeginExecute, Executes, Flushes
  <2> QED
    BY <1>18, <2>1, BeginExecuteBegins, BeginsDeletes DEF DInv
<1>19. CASE UNCHANGED vars
  <2>1. stageCount' = stageCount /\ OthersFlushed(stage') /\ UNCHANGED <<world, stage, deleting>>
    BY <1>19 DEF vars, OthersFlushed, DInv
  <2> QED
    BY <2>1, DeletingKeptByParts DEF DInv
<1> QED
  BY <1>1, <1>2, <1>3, <1>4, <1>5, <1>6, <1>7, <1>8, <1>9, <1>10, <1>11, <1>12, <1>13, <1>14, <1>15,
     <1>16, <1>17, <1>18, <1>19 DEF Next

\* The invariants hold always.
LEMMA AlwaysIInv == Spec => [](IInv /\ DInv)
<1>1. Init => IInv /\ DInv
  BY InitIInv, InitDInv
<1>2. IInv /\ DInv /\ [Next]_vars => (IInv /\ DInv)'
  BY NextIInv, NextDInv
<1> QED
  BY <1>1, <1>2, PTL DEF Spec

\* The commands of an entity are chained as batching needs, and a queue that was
\* flushed leaves no entry behind (flecs_cmd_new_batched, flecs_defer_end).
THEOREM ChainsAreLinked == Spec => []ChainsLinked
<1>1. IInv => ChainsLinked
  <2> SUFFICES ASSUME IInv, NEW s \in Stages
               PROVE  /\ Chained(stage[s].queue, stage[s].entries)
                      /\ stage[s].at = 0 => \A id \in Ids : stage[s].stale[id] = NoEntry
    BY DEF ChainsLinked
  <2>1. StageOK(stage[s])
    BY InvFacts
  <2> QED
    BY <2>1 DEF StageOK, QueueOK, Ahead
<1> QED
  BY <1>1, AlwaysIInv, PTL

\* When nothing is deferred and no flush is going on, no command is left
\* (flecs_defer_end).
THEOREM NothingIsLeft == Spec => []NothingLeft
<1>1. IInv => NothingLeft
  BY InvFacts DEF NothingLeft, Emptied, Idle, Flushing
<1> QED
  BY <1>1, AlwaysIInv, PTL

\* The world is well typed, and no entity has a pair with a target that is not
\* alive (flecs_remove_invalid, flecs_cmd_batch_for_entity, ecs_delete).
THEOREM WorldIsSound == Spec => []WorldSound
<1>1. IInv /\ DInv => WorldSound
  <2> SUFFICES ASSUME IInv, DInv PROVE WorldSound
    OBVIOUS
  <2>1. WorldOK(world) /\ DefersSound
    BY InvFacts
  <2>2. NoDanglingTargets
    BY <2>1 DEF WorldOK, NoDanglingTargets
  <2>3. ASSUME NEW s \in Stages
        PROVE  /\ stage[s].defer \in -MaxDepth .. MaxDepth
               /\ stage[s].phase \in {"visit", "set", "execute"}
               /\ stage[s].at \in 0 .. Len(stage[s].flushed)
    <3>1. stage[s] \in StageSet /\ StageOK(stage[s])
      BY InvFacts
    <3>2. stage[s].at \in Nat /\ stage[s].at <= Len(stage[s].flushed) /\ Len(stage[s].flushed) \in Nat
      BY <3>1, StageFacts DEF StageOK
    <3> QED
      BY <3>1, <3>2 DEF StageSet
  <2>4. deleting \subseteq [id : Ids, gen : 0 .. MaxGen]
    BY DEF DInv, Entity
  <2>5. TypeOK
    BY <2>1, <2>3, <2>4, WorldFacts DEF TypeOK, WorldOK, DefersSound
  <2> QED
    BY <2>2, <2>5 DEF WorldSound
<1> QED
  BY <1>1, AlwaysIInv, PTL

-----------------------------------------------------------------------------
(* The theorem                                                               *)

LEMMA InitFInv == Init => FInv
<1> SUFFICES ASSUME Init PROVE FInv
  OBVIOUS
<1>1. IInv
  BY InitIInv
<1>2. reacted \in Nat /\ expected = NoWorld
  BY DEF Init
<1>3. ValuesOwned(world)
  BY DEF Init, ValuesOwned
<1>4. QueuesSound(world, stage) /\ WritesSound(world, stage, bypassed)
  <2> SUFFICES ASSUME NEW s \in Stages
               PROVE  /\ QueueSound(world, stage[s].queue, stage[s].entries)
                      /\ \A j : j \notin 1 .. Len(stage[s].queue)
    BY Zenon DEF QueuesSound, WritesSound, WriteSound
  <2>1. StageOK(stage[s])
    BY <1>1, InvFacts
  <2>2. stage[s].queue = <<>>
    BY DEF Init, Empty
  <2> QED
    BY <2>1, <2>2, EmptySound DEF StageOK, QueueOK
<1> QED
  BY <1>1, <1>2, <1>3, <1>4 DEF FInv

\* An operation on the world with which no outcome is expected: what was queued
\* stays sound.
LEMMA DeletionFlushes ==
    ASSUME FInv, IInv', NEW w, WorldOK(w), ValuesOwned(w), \A id \in Ids : world.gen[id] <= w.gen[id],
           NEW st, StagesOK(st), QueuesKept(stage, st), stage[0].at # 0 \/ stage[0].queue = <<>>,
           \A t \in Stages \ {0} : Emptied(st[t]),
           NEW events, \A ev \in events : ev.entity \in Handles,
           Operate(w, st, events), stageCount' = stageCount, expected' = NoWorld
    PROVE  FInv'
<1>1. /\ 0 \in Stages /\ WorldOK(world) /\ reacted \in Nat /\ StagesOK(stage)
      /\ QueuesSound(world, stage) /\ WritesSound(world, stage, bypassed)
  BY FInvFacts
<1>2. /\ ValuesOwned(world') /\ world'.gen = w.gen /\ reacted' \in Nat
      /\ QueuesKept(st, stage')
  BY <1>1, OperateShape
<1>3. WorldOK(world') /\ StagesOK(stage')
  BY <1>1, OperateOK
<1>4. QueuesKept(stage, stage')
  BY <1>2, QueuesKeptTrans
<1>5. QueuesSound(world', stage')
  BY <1>1, <1>2, <1>3, <1>4, QueuesKeptSound
<1>6. WritesSound(world', stage', bypassed')
  BY <1>1, <1>3, <1>4, WritesKeptSound
<1> QED
  BY <1>2, <1>5, <1>6, FlushKeptByParts

LEMMA BeginsFlushes ==
    ASSUME FInv, NEW s \in Stages, NEW e, NEW st, BeginsFrom(s, e, st)
    PROVE  FInv'
<1> DEFINE w == CleanUp(world, e)  events == Events(world, w, {})
           doomed == Doomed(world, e.id)
           ids == IF DiesWith(world, e.id, doomed) THEN doomed ELSE doomed \ {e.id}
<1>1. /\ IInv /\ 0 \in Stages /\ WorldOK(world) /\ ValuesOwned(world)
  BY FInvFacts
<1>2. /\ e \in Handles /\ Alive(world, e) /\ BeginDelete(e, st)
      /\ StagesOK(st) /\ (\A t \in Stages : Emptied(st[t])) /\ QueuesKept(stage, st)
      /\ st[0] = stage[0] /\ st[0].queue = <<>> /\ stageCount' = stageCount
  BY DEF BeginsFrom
<1>3. w = Without(world, ids, doomed)
  BY DEF CleanUp
<1> HIDE DEF ids, doomed
<1>4. /\ WorldOK(w) /\ \A ev \in events : ev.entity \in Handles
      /\ Operate(w, st, events) /\ expected' = NoWorld
  BY <1>1, <1>2, BeginDeleteOperates
<1>5. ValuesOwned(w) /\ \A id \in Ids : world.gen[id] <= w.gen[id]
  BY <1>1, <1>3, WithoutOwned
<1>6. IInv'
  BY <1>1, BeginsKeeps
<1> HIDE DEF w, events
<1> QED
  BY <1>2, <1>4, <1>5, <1>6, DeletionFlushes

LEMMA FinishDeleteFlushes ==
    ASSUME FInv, DInv, FinishDelete
    PROVE  FInv'
<1>1. /\ IInv /\ 0 \in Stages /\ WorldOK(world) /\ ValuesOwned(world) /\ StagesOK(stage)
      /\ \A t \in Stages : Emptied(stage[t])
  BY FInvFacts, InvFacts
<1>2. PICK e \in deleting :
         /\ WorldOK(FinishWorld(e))
         /\ \A ev \in Events(world, FinishWorld(e), {}) : ev.entity \in Handles
         /\ Operate(FinishWorld(e), stage, Events(world, FinishWorld(e), {}))
  BY <1>1, FinishDeleteFacts
<1> DEFINE w == FinishWorld(e)  events == Events(world, w, {})
<1>3. stage[0].queue = <<>> /\ expected' = NoWorld /\ stageCount' = stageCount
  BY <1>1, FinishDeleteFacts
<1>4. ValuesOwned(w) /\ \A id \in Ids : world.gen[id] <= w.gen[id]
  <2>1. CASE Alive(world, e)
    <3>1. w = Without(world, {e.id}, {})
      BY <2>1 DEF FinishWorld, Removed
    <3> HIDE DEF w
    <3> QED
      BY <1>1, <3>1, WithoutOwned
  <2>2. CASE ~Alive(world, e)
    <3>1. w = world
      BY <2>2 DEF FinishWorld
    <3> QED
      BY <1>1, <3>1, SameGens
  <2> QED
    BY <2>1, <2>2
<1>5. IInv'
  BY <1>1, FinishDeleteKeeps
<1>6. QueuesKept(stage, stage)
  BY DEF QueuesKept
<1>7. WorldOK(w) /\ (\A ev \in events : ev.entity \in Handles) /\ Operate(w, stage, events)
  BY <1>2
<1> HIDE DEF w, events
<1> QED
  BY <1>1, <1>3, <1>4, <1>5, <1>6, <1>7, DeletionFlushes

LEMMA NextFInv == FInv /\ DInv /\ [Next]_vars => FInv'
<1> SUFFICES ASSUME FInv, DInv, [Next]_vars PROVE FInv'
  OBVIOUS
<1>1. CASE DeferBegin
  BY <1>1, DeferBeginFlushes
<1>2. CASE DeferEnd
  BY <1>2, DeferEndFlushes
<1>3. CASE DeferSuspend
  BY <1>3, DeferSuspendFlushes
<1>4. CASE ReadonlyBegin
  BY <1>4, ReadonlyBeginFlushes
<1>5. CASE ReadonlyEnd
  BY <1>5, ReadonlyEndFlushes
<1>6. CASE MergeStage
  BY <1>6, MergeStageFlushes
<1>7. ASSUME NEW c \in CommandsOf(LivingEntities), Direct(c) PROVE FInv'
  BY <1>7, DirectFlushes
<1>8. ASSUME NEW c \in CommandsOf(LivingEntities), DirectDelete(c) PROVE FInv'
  BY <1>8, FInvFacts, DirectDeleteBegins, BeginsFlushes
<1>9. ASSUME NEW c \in CommandsOf(LivingEntities), DirectSuspended(c) PROVE FInv'
  BY <1>9, DirectSuspendedFlushes
<1>10. ASSUME NEW c \in CommandsOf(LivingEntities), NEW s \in Stages, Defer(s, c) PROVE FInv'
  BY <1>10, DeferFlushes
<1>11. ASSUME NEW id \in Ids, New(id) PROVE FInv'
  BY <1>11, NewFlushes
<1>12. CASE FinishDelete
  BY <1>12, FinishDeleteFlushes
<1>13. ASSUME NEW s \in Stages, CommitBatch(s) PROVE FInv'
  BY <1>13, CommitBatchFlushes
<1>14. ASSUME NEW s \in Stages, DeleteBatch(s) PROVE FInv'
  BY <1>14, DeleteBatchFlushes
<1>15. ASSUME NEW s \in Stages, BeginDeleteBatch(s) PROVE FInv'
  BY <1>15, FInvFacts, BeginDeleteBatchBegins, BeginsFlushes DEF DInv
<1>16. ASSUME NEW s \in Stages, FinishBatch(s) PROVE FInv'
  BY <1>16, FinishBatchFlushes
<1>17. ASSUME NEW s \in Stages, Execute(s) PROVE FInv'
  BY <1>17, ExecuteGoesOn
<1>18. ASSUME NEW s \in Stages, BeginExecute(s) PROVE FInv'
  BY <1>18, FInvFacts, BeginExecuteBegins, BeginsFlushes DEF DInv
<1>19. CASE UNCHANGED vars
  <2>1. UNCHANGED <<world, stageCount, stage, reacted, expected, bypassed>>
    BY <1>19 DEF vars
  <2>2. SameQueues(stage, stage')
    BY <2>1 DEF SameQueues
  <2>3. IInv'
    BY <1>19, FInvFacts, NextIInv
  <2> QED
    BY <2>1, <2>2, <2>3, QuietKeeps
<1> QED
  BY <1>1, <1>2, <1>3, <1>4, <1>5, <1>6, <1>7, <1>8, <1>9, <1>10, <1>11, <1>12, <1>13, <1>14, <1>15,
     <1>16, <1>17, <1>18, <1>19 DEF Next

\* A flush leaves the entities, the types and the values that its commands have
\* one by one, where no observer adds to them (flecs_cmd_batch_for_entity,
\* flecs_defer_end).
THEOREM FlushesAreSequential == Spec => []FlushIsSequential
<1>1. FInv => FlushIsSequential
  <2> SUFFICES ASSUME FInv, expected # NoWorld, ~Flushing(stage)
               PROVE  Reached(world, expected)
    BY DEF FlushIsSequential, Reached
  <2>1. FlushSound(world, stage, expected)
    BY FInvFacts
  <2> QED
    BY <2>1 DEF FlushSound, Flushing
<1>2. Init => FInv /\ DInv
  BY InitFInv, InitDInv
<1>3. FInv /\ DInv /\ [Next]_vars => (FInv /\ DInv)'
  BY NextFInv, NextDInv, FInvFacts
<1> QED
  BY <1>1, <1>2, <1>3, PTL DEF Spec
==============================================================================
