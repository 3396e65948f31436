---------------------------- MODULE ConsentEvidence ----------------------------
(***************************************************************************)
(* The durable record of consent: FileConsentEvidenceStore in              *)
(* src/auth/consent-evidence-store.ts, of several processes that share one *)
(* append-only file.                                                       *)
(*                                                                         *)
(* A store keeps an index of the lines it has read and reads on from where *)
(* it stopped.  What interleaves: stats, reads and writes of other stores, *)
(* writes that break off, crashes, and an operator who repairs or compacts *)
(* the file.  The records are of one identity and profile; a line is the   *)
(* unit of size.  A store takes one operation at a time from its queue.    *)
(***************************************************************************)
EXTENDS Naturals, FiniteSets, Sequences, SequencesExt, FiniteSetsExt

CONSTANTS
    Store, None,
    Acceptances,       \* the acceptances that users make: [at, version, hash]
    Revocations,  \* the times of the revocations that operators make
    MaxLines      \* bound: no write ends when the file has that many lines

Versions == {g.version : g \in Acceptances}

ASSUME EvidenceAssumption ==
    /\ \A g \in Acceptances : DOMAIN g = {"at", "version", "hash"} /\ g.at \in Nat \ {0}
    /\ Revocations \subseteq Nat \ {0} /\ None \notin Store \cup Acceptances
    /\ MaxLines \in Nat

VARIABLES
    file,     \* its complete lines
    left,     \* the file ends in a part of a line that a writer left behind
    writer,   \* the store whose line is being written, or None
    store,    \* the stores
    acked     \* the records whose operation was answered

evidenceVars == <<file, left, writer, store, acked>>

----------------------------------------------------------------------------
Grant(g) == [type |-> "grant", bad |-> FALSE, grant |-> g, at |-> 0]
Revocation(t) == [type |-> "revocation", bad |-> FALSE, grant |-> None, at |-> t]

\* A record that follows what was left of another is no JSON; an operator can
\* still tell it.
LineRecord == [type : {"grant", "revocation"}, bad : BOOLEAN, grant : Acceptances \cup {None}, at : Nat]
Written == {Grant(g) : g \in Acceptances} \cup {Revocation(t) : t \in Revocations}
Lookup == [type |-> "lookup"]

\* ConsentIndex
Index == [grants : [Versions -> Acceptances \cup {None}], latest : Acceptances \cup {None}, revoked : Nat]
Empty == [grants |-> [v \in Versions |-> None], latest |-> None, revoked |-> 0]

StoreRecord ==
    [ at     : {"idle", "reading", "loaded", "appending", "writing"},
      op     : Written \cup {Lookup},
      since  : SUBSET Written,           \* acked when it called stat
      index  : Index,
      offset : Nat,                      \* lastLoadedSize
      tail   : LineRecord \cup {None},       \* lastLoadedTail: the last line consumed
      loaded : BOOLEAN,                  \* loadedOnce
      moved  : BOOLEAN,                  \* dev and ino are not those it knows
      stale  : BOOLEAN,                  \* nor is mtime
      size   : Nat,                      \* the lines, when it called stat,
      part   : BOOLEAN,                  \* whether part of a line followed,
      same   : BOOLEAN ]                 \* and whether it was the file it knows
Fresh == [ at |-> "idle", op |-> Lookup, since |-> {}, index |-> Empty, offset |-> 0,
           tail |-> None, loaded |-> FALSE, moved |-> TRUE, stale |-> TRUE,
           size |-> 0, part |-> FALSE, same |-> FALSE ]

EvidenceInit ==
    /\ file = <<>> /\ left = FALSE /\ writer = None
    /\ store = [p \in Store |-> Fresh] /\ acked = {}

Part == left \/ writer # None

----------------------------------------------------------------------------
(* evaluateGrantFold and ConsentIndex: an acceptance against those known. *)

Supersedes(g, k) ==
    k = None \/ g.at > k.at \/ (g.at = k.at /\ g # k)

Apply(index, g) ==
    [index EXCEPT !.grants[g.version] = IF Supersedes(g, @) THEN g ELSE @,
                  !.latest = IF Supersedes(g, @) THEN g ELSE @]
AddRevocation(index, t) == [index EXCEPT !.revoked = IF t > @ THEN t ELSE @]
FoldLine(index, line) ==
    IF line.type = "grant" THEN Apply(index, line.grant) ELSE AddRevocation(index, line.at)
Folded(index, lines) ==
    LET after[n \in 0 .. Len(lines)] ==
          IF n = 0 THEN index ELSE FoldLine(after[n - 1], lines[n])
    IN  after[Len(lines)]

\* What the lines say: of each version, and of all, the acceptance with the
\* highest time, and of those the last.
NewestOf(lines, vs) ==
    LET of == {i \in DOMAIN lines : lines[i].type = "grant" /\ lines[i].grant.version \in vs}
        newest == {i \in of : \A j \in of : lines[j].grant.at <= lines[i].grant.at}
    IN  IF of = {} THEN None ELSE lines[Max(newest)].grant
Meaning(lines) ==
    [ grants  |-> [v \in Versions |-> NewestOf(lines, {v})],
      latest  |-> NewestOf(lines, Versions),
      revoked |-> Max({0} \cup {lines[i].at : i \in DOMAIN lines}) ]

----------------------------------------------------------------------------
(* Steps of a store, and what they do to it *)

Becomes(p, s) == store' = [store EXCEPT ![p] = s]

\* The file is written: no store knows its mtime any more.
Touched(stores) == [q \in Store |-> [stores[q] EXCEPT !.stale = TRUE]]

\* What a read and an operation no longer need is not kept.
ReadDone(s) == [s EXCEPT !.size = 0, !.part = FALSE, !.same = FALSE]
OpEnds(s) == [ReadDone(s) EXCEPT !.at = "idle", !.op = Lookup, !.since = {}]
Reset(s) == [s EXCEPT !.index = Empty, !.offset = 0, !.tail = None, !.loaded = FALSE,
                      !.moved = TRUE, !.stale = TRUE]

\* An operation begins with reloadIfChanged, which calls stat: there is no file,
\* or it has not changed, or it is read.  A stat that fails changes nothing.
Unchanged(s) == s.loaded /\ ~s.moved /\ ~s.stale /\ ~Part /\ Len(file) = s.offset
Begin(p, o) ==
    LET s == [store[p] EXCEPT !.op = o, !.since = acked] IN
    /\ store[p].at = "idle"
    /\ Becomes(p,
         IF file = <<>> /\ ~Part THEN [Reset(s) EXCEPT !.at = "loaded", !.loaded = TRUE]
         ELSE IF Unchanged(s) THEN [s EXCEPT !.at = "loaded"]
         ELSE [s EXCEPT !.at = "reading", !.size = Len(file), !.part = Part,
                        !.same = ~s.moved, !.moved = FALSE, !.stale = FALSE])
    /\ UNCHANGED <<file, left, writer, acked>>

\* The file has only grown: it is the one known, larger, and the last line
\* consumed is where it was.
Grown(s) ==
    /\ s.loaded /\ s.same /\ (s.size > s.offset \/ (s.part /\ s.size = s.offset))
    /\ s.offset > 0 => Len(file) >= s.offset /\ file[s.offset] = s.tail

\* loadTail or loadAll
Base(s) == IF Grown(s) THEN s ELSE [s EXCEPT !.index = Empty, !.offset = 0]
UnreadLines(s) == SubSeq(file, Base(s).offset + 1, Min({s.size, Len(file)}))

\* What a read that fails has not learnt.
Unlearnt(s) == [OpEnds(Base(s)) EXCEPT !.stale = TRUE, !.moved = @ \/ ~s.same]

Readable(lines) == \A i \in DOMAIN lines : ~lines[i].bad
FirstBad(lines, i) == lines[i].bad /\ Readable(SubSeq(lines, 1, i - 1))

\* consumeFrom: the complete lines are folded into the index; part of a line is
\* left for the next time.
Consumed(s) == Len(UnreadLines(s))
Read(p) ==
    LET s == store[p]
        lines == UnreadLines(s)
    IN
    /\ s.at = "reading" /\ Readable(lines)
    /\ Becomes(p, [ReadDone(Base(s)) EXCEPT !.at = "loaded", !.loaded = TRUE,
                     !.index = Folded(@, lines),
                     !.offset = @ + Consumed(s),
                     !.tail = IF lines # <<>> THEN Last(lines) ELSE IF Grown(s) THEN @ ELSE None,
                     !.stale = @ \/ s.part \/ Base(s).offset + Consumed(s) # s.size])
    /\ UNCHANGED <<file, left, writer, acked>>

\* A line that is no JSON could be a revocation: the operation fails, after
\* the lines before it have been folded in.
ReadBad(p) ==
    LET s == store[p]
        lines == UnreadLines(s)
    IN
    /\ s.at = "reading"
    /\ \E i \in DOMAIN lines :
          /\ FirstBad(lines, i)
          /\ Becomes(p, [Unlearnt(s) EXCEPT !.index = Folded(@, SubSeq(lines, 1, i - 1))])
    /\ UNCHANGED <<file, left, writer, acked>>

ReadFails(p) ==
    /\ store[p].at = "reading" /\ Becomes(p, Unlearnt(store[p]))
    /\ UNCHANGED <<file, left, writer, acked>>

\* What the store has loaded answers a lookup, and a grant that changes nothing.
NothingNew(s) == s.op.type = "grant" /\ Apply(s.index, s.op.grant) = s.index
Answer(p) ==
    LET s == store[p] IN
    /\ s.at = "loaded" /\ (s.op = Lookup \/ NothingNew(s))
    /\ Becomes(p, OpEnds(s))
    /\ acked' = acked \cup ({s.op} \ {Lookup})
    /\ UNCHANGED <<file, left, writer>>

\* Any other grant is folded in first; a revocation is appended first.
Proceed(p) ==
    LET s == store[p] IN
    /\ s.at = "loaded" /\ ~(s.op = Lookup \/ NothingNew(s))
    /\ Becomes(p, [s EXCEPT !.at = "appending", !.since = {},
                     !.index = IF s.op.type = "grant" THEN Apply(@, s.op.grant) ELSE @])
    /\ UNCHANGED <<file, left, writer, acked>>

----------------------------------------------------------------------------
(* appendLine *)

\* A write is under way; writes to one file do not overlap.
StartWrite(p) ==
    /\ store[p].at = "appending" /\ writer = None
    /\ writer' = p
    /\ store' = Touched([store EXCEPT ![p].at = "writing"])
    /\ UNCHANGED <<file, left, acked>>

\* The offset stays: the next operation reads what it wrote, and what others
\* have written before it.
OffsetToEnd(s) == [s EXCEPT !.offset = Len(file) + 1, !.tail = s.op]
AfterAppend(s) == s

FinishWrite(p) ==
    LET s == store[p] IN
    /\ s.at = "writing" /\ Len(file) < MaxLines
    /\ file' = Append(file, [s.op EXCEPT !.bad = left])
    /\ left' = FALSE /\ writer' = None
    /\ store' = Touched([store EXCEPT ![p] =
                   [OpEnds(AfterAppend(s)) EXCEPT
                      !.index = IF s.op.type = "revocation" THEN AddRevocation(@, s.op.at) ELSE @]])
    /\ acked' = acked \cup {s.op}

\* It fails before the first byte or after, or the file is at its limit of
\* EVIDENCE_MAX_BYTES.  A grant that was folded in is forgotten with the rest.
ForgetsNothing(s) == OpEnds(s)
Forgets(s) == IF s.op.type = "grant" THEN OpEnds(Reset(s)) ELSE OpEnds(s)
AppendFails(p) ==
    /\ store[p].at \in {"appending", "writing"}
    /\ left' = (left \/ writer = p)
    /\ writer' = IF writer = p THEN None ELSE writer
    /\ Becomes(p, Forgets(store[p]))
    /\ UNCHANGED <<file, acked>>

----------------------------------------------------------------------------
(* Crashes and operators *)

\* The process ends and another takes its place.
Crash(p) ==
    /\ store[p] # Fresh
    /\ left' = (left \/ writer = p)
    /\ writer' = IF writer = p THEN None ELSE writer
    /\ Becomes(p, Fresh)
    /\ UNCHANGED <<file, acked>>

\* "repair the evidence file before continuing": in place, or by a new file.
Repair(inPlace) ==
    /\ writer = None /\ (left \/ \E i \in DOMAIN file : file[i].bad)
    /\ file' = [i \in DOMAIN file |-> [file[i] EXCEPT !.bad = FALSE]]
    /\ left' = FALSE
    /\ store' = [p \in Store |-> [Touched(store)[p] EXCEPT !.moved = @ \/ ~inPlace]]
    /\ UNCHANGED <<writer, acked>>

\* "compact or rotate it": a new file without a line that has no effect.
Compact(i) ==
    /\ ~Part /\ Readable(file) /\ Meaning(RemoveAt(file, i)) = Meaning(file)
    /\ file' = RemoveAt(file, i)
    /\ store' = [p \in Store |-> [store[p] EXCEPT !.moved = TRUE, !.stale = TRUE]]
    /\ UNCHANGED <<left, writer, acked>>

EvidenceNext ==
    \/ \E p \in Store :
          \/ \E o \in Written \cup {Lookup} : Begin(p, o)
          \/ Read(p) \/ ReadBad(p) \/ ReadFails(p)
          \/ Answer(p) \/ Proceed(p)
          \/ StartWrite(p) \/ FinishWrite(p) \/ AppendFails(p) \/ Crash(p)
    \/ \E inPlace \in BOOLEAN : Repair(inPlace)
    \/ \E i \in DOMAIN file : Compact(i)

EvidenceSpec == EvidenceInit /\ [][EvidenceNext]_evidenceVars

----------------------------------------------------------------------------
(* Properties *)

\* Types; and a store stands, in the file it knows, after complete lines of
\* which the last is its tail.
EvidenceTypeOK ==
    /\ file \in Seq(LineRecord) /\ left \in BOOLEAN /\ writer \in Store \cup {None}
    /\ store \in [Store -> StoreRecord] /\ acked \subseteq Written
    /\ \A p \in Store :
          /\ writer = p <=> store[p].at = "writing"
          /\ ~store[p].moved /\ store[p].at # "reading" =>
                /\ store[p].offset <= Len(file)
                /\ store[p].offset > 0 => file[store[p].offset] = store[p].tail

Loads(p) == store[p].at # "loaded" /\ store'[p].at = "loaded" /\ ~store'[p].moved

\* A store that loads the file has in its index what the lines say that it has
\* consumed, in their order, though it read them in parts, some of them twice,
\* folded its own in before, dropped out in the middle, or met another file
\* (reloadIfChanged, persistGrant, ConsentIndex).  Only when a file took the
\* place of the one it called stat on is its index a mixture, until the next time.
IndexIsFile ==
    [][\A p \in Store : Loads(p) =>
          store'[p].index = Meaning(SubSeq(file, 1, store'[p].offset))]_evidenceVars

Knows(index, r) ==
    IF r.type = "revocation" THEN index.revoked >= r.at
    ELSE /\ index.latest # None /\ index.latest.at >= r.grant.at
         /\ index.grants[r.grant.version] # None
         /\ index.grants[r.grant.version].at >= r.grant.at

\* A store that has loaded the file knows of every acceptance and revocation
\* that any store has acknowledged before it called stat, whatever broke off,
\* crashed or was repaired since; else it fails.  (Unless a file took the place of
\* the one it called stat on: it reads that as far as the old one went.)
AcknowledgedSeen ==
    \A p \in Store : store[p].at = "loaded" /\ ~store[p].moved =>
        \A r \in store[p].since : Knows(store[p].index, r)
=============================================================================
