----------------------------- MODULE MemoryStore -----------------------------
(***************************************************************************)
(* What is remembered about one repository                                 *)
(* (packages/integrations/src/memory.ts): a list in memory that every read *)
(* is answered from, and one file per repository written through a queue.  *)
(* A finished run records what it learned and is never failed by a write;  *)
(* a deletion the user asked for is undone and reported when its write     *)
(* fails.                                                                  *)
(***************************************************************************)
EXTENDS Naturals, Sequences, FiniteSets, SequencesExt

CONSTANTS Facts,        \* what a run may learn
          MaxEntries,   \* memory.maxEntries
          MaxRecords,   \* bound: runs that record something
          MaxForgets,   \* bound: single memories deleted
          MaxClears,    \* bound: whole repositories deleted
          MaxBadWrites, \* bound: writes that fail
          MaxReboots    \* bound: crashes of the host

(* record() keeps at least one entry, whatever the configuration says. *)
ASSUME MemoryAssumption ==
  /\ MaxEntries \in Nat \ {0}
  /\ {MaxRecords, MaxForgets, MaxClears, MaxBadWrites, MaxReboots} \subseteq Nat

VARIABLES
  list,       \* #repos.get(repo): its identity and its facts, most useful first
  onDisk,     \* the repository's file: the facts in it, or none
  saves,      \* the write queue: bodies computed when they were queued
  forgotten,  \* (history) deleted, acknowledged, and not recorded since the call
  spent       \* actions so far, against the bounds

memoryVars == << list, onDisk, saves, forgotten, spent >>

Absent == [id |-> 0, facts |-> << >>]

NoneSpent == [records |-> 0, forgets |-> 0, clears |-> 0, failures |-> 0, boots |-> 0]

Cost(k, max) == spent[k] < max /\ spent' = [spent EXCEPT ![k] = @ + 1]

(* A new array, never identical to one seen before. *)
ListsMade == spent.records + spent.forgets + spent.boots
NewList(facts) == [id |-> ListsMade + 1, facts |-> facts]

MemoryInit ==
  /\ list = Absent /\ onDisk = << >> /\ saves = << >>
  /\ forgotten = {} /\ spent = NoneSpent

-----------------------------------------------------------------------------
(* The memories but one: their ids tell them apart. *)
Without(facts, f) ==
  IF f \in ToSet(facts)
  THEN RemoveAt(facts, CHOOSE k \in DOMAIN facts : facts[k] = f) ELSE facts

(* record: a known fact is reaffirmed, a new one added, both at the head;   *)
(* the tail past the cap is dropped.                                        *)
Merged(f) ==
  LET rest == Without(list.facts, f)
  IN  << f >> \o SubSeq(rest, 1, IF Len(rest) < MaxEntries THEN Len(rest) ELSE MaxEntries - 1)

Record(f) ==
  /\ Cost("records", MaxRecords)
  /\ list' = NewList(Merged(f))
  /\ saves' = Append(saves, [kind |-> "record", body |-> Merged(f)])
  /\ forgotten' = forgotten \ {f}
  /\ UNCHANGED onDisk

(* forget and clear: #delete, up to the await of its write. *)
Delete(next, gone) ==
  /\ list' = next
  /\ saves' = Append(saves, [kind |-> "delete", body |-> next.facts, next |-> next.id,
                               previous |-> list, gone |-> gone])
  /\ UNCHANGED << onDisk, forgotten >>

ForgetOne(f) ==
  /\ Cost("forgets", MaxForgets)
  /\ f \in ToSet(list.facts)
  /\ Delete(NewList(Without(list.facts, f)), {f})

ClearAll ==
  /\ list # Absent
  /\ Cost("clears", MaxClears)
  /\ Delete(Absent, ToSet(list.facts))

(* What was recorded again since the deletion was asked for. *)
RecordedSince == UNION {ToSet(saves[i].body) : i \in {j \in 2 .. Len(saves) :
                                                          saves[j].kind = "record"}}

Written ==
  /\ saves # << >>
  /\ onDisk' = Head(saves).body
  /\ saves' = Tail(saves)
  /\ forgotten' = forgotten \cup
       (IF Head(saves).kind = "delete" THEN Head(saves).gone \ RecordedSince ELSE {})
  /\ UNCHANGED << list, spent >>

(* The undo of a failed deletion, without and with the check that nothing   *)
(* newer replaced what it had set.                                          *)
RolledBackAnyway(w) == w.previous

RolledBack(w) == IF list.id = w.next THEN w.previous ELSE list

MemoryWriteFails ==
  /\ saves # << >>
  /\ Cost("failures", MaxBadWrites)
  /\ saves' = Tail(saves)
  /\ list' = IF Head(saves).kind = "delete" THEN RolledBack(Head(saves)) ELSE list
  /\ UNCHANGED << onDisk, forgotten >>

(* The host goes down: what was queued is lost, and a write under way may   *)
(* leave a file that init() skips as unreadable.                            *)
Reboot ==
  /\ Cost("boots", MaxReboots)
  /\ onDisk' \in {onDisk} \cup (IF saves # << >> THEN {<< >>} ELSE {})
  /\ list' = IF onDisk' = << >> THEN Absent ELSE NewList(onDisk')
  /\ saves' = << >>
  /\ UNCHANGED forgotten

MemoryNext ==
  \/ \E f \in Facts : Record(f) \/ ForgetOne(f)
  \/ ClearAll \/ Written \/ MemoryWriteFails \/ Reboot

MemorySpec == MemoryInit /\ [][MemoryNext]_memoryVars

-----------------------------------------------------------------------------
(* The types of the store's state. *)
MemoryTypeOK ==
  /\ ToSet(list.facts) \subseteq Facts /\ Len(list.facts) <= MaxEntries
  /\ ToSet(onDisk) \subseteq Facts /\ Len(onDisk) <= MaxEntries
  /\ forgotten \subseteq Facts

(* A deletion that was reported done sticks: the fact is neither handed to  *)
(* the next run nor in anything that is or will be on disk, whatever was    *)
(* recorded, deleted or failed around it, until a run learns it again.      *)
DeletionsStick ==
  \A f \in forgotten :
    /\ f \notin ToSet(list.facts) /\ f \notin ToSet(onDisk)
    /\ \A i \in DOMAIN saves : f \notin ToSet(saves[i].body)
-----------------------------------------------------------------------------
(* What it needs to be inductive, and where it ends: clear leaves no list   *)
(* behind, and two absent lists are identical.                              *)

(* No clear is asked for while the write of an earlier one is queued. *)
ClearsApart ==
  \A i, j \in DOMAIN saves :
    saves[i].kind = "delete" /\ saves[j].kind = "delete" /\ saves[i].next = Absent.id
      /\ saves[j].next = Absent.id => i = j

Lists == [id : Nat, facts : Seq(Facts)]
Saves == [kind : {"record"}, body : Seq(Facts)]
         \cup [kind : {"delete"}, body : Seq(Facts), next : Nat, previous : Lists,
               gone : SUBSET Facts]

(* A memory is listed once, and there are no more than the cap. *)
Tidy(facts) == IsInjective(facts) /\ Len(facts) <= MaxEntries

StoreInv ==
  /\ list \in Lists /\ Tidy(list.facts) /\ (list.id = Absent.id => list = Absent)
  /\ onDisk \in Seq(Facts) /\ Tidy(onDisk)
  /\ saves \in Seq(Saves)
  /\ \A i \in DOMAIN saves : Tidy(saves[i].body)
  /\ \A i \in DOMAIN saves : saves[i].kind = "delete" =>
        Tidy(saves[i].previous.facts) /\ saves[i].previous.id # Absent.id
  /\ forgotten \subseteq Facts
  /\ spent \in [{"records", "forgets", "clears", "failures", "boots"} -> Nat]

(* What is in memory is what the last operation queued left there, and no   *)
(* earlier deletion's: a roll-back undoes the last, or nothing.             *)
IdentityInv ==
  /\ list.id <= ListsMade
  /\ \A i \in DOMAIN saves : saves[i].kind = "delete" =>
        /\ saves[i].next <= ListsMade /\ saves[i].previous.id <= ListsMade
        /\ i # Len(saves) => saves[i].next # list.id

(* Nothing that is still to be written or put back holds f, from the i-th   *)
(* save on, but what was recorded since.                                    *)
GoneFrom(f, i) ==
  /\ f \notin ToSet(list.facts)
  /\ \A j \in DOMAIN saves : j >= i => f \notin ToSet(saves[j].body)
  /\ \A j \in DOMAIN saves : j > i /\ saves[j].kind = "delete" =>
                               f \notin ToSet(saves[j].previous.facts)
RecordedAfter(f, i) ==
  \E j \in DOMAIN saves : j > i /\ saves[j].kind = "record" /\ f \in ToSet(saves[j].body)

(* A fact that was deleted is gone from all that, unless a run learned it   *)
(* again: while the deletion is queued, and once it was reported done.      *)
DeletionInv ==
  /\ \A i \in DOMAIN saves : saves[i].kind = "delete" =>
        \A f \in saves[i].gone : RecordedAfter(f, i) \/ GoneFrom(f, i)
  /\ \A f \in forgotten : GoneFrom(f, 0) /\ f \notin ToSet(onDisk)

MemoryInv == StoreInv /\ IdentityInv /\ DeletionInv
=============================================================================
