---------------------------- MODULE ProgRouters ----------------------------
(* The routing tables of the programmable routers, as the host builds them  *)
(* (include/POLite/ProgRouters.h), and the walk a router makes over them    *)
(* for one message (rtl/ProgRouter.bsv).  A table is a sequence of beats    *)
(* per off-chip RAM; a beat is the sequence of its records; the byte layout *)
(* of records and keys is left out.  Boards and mailboxes are numbered from *)
(* 0, and a board holds NumMailboxes mailboxes.                             *)
EXTENDS Integers, FiniteSets, SequencesExt

CONSTANTS
  MeshX,         \* boards in a row of the mesh (1 << TinselMeshXBits)
  NumMailboxes,  \* mailboxes on a board
  ChunksPerBeat, \* 48-bit chunks in a beat (5)
  MaxKeyBeats,   \* most beats a key can name (31)
  RouterBeats    \* bound: beats in one RAM's table before it is refused

NoInd == <<>>

\* A key names n beats from index ptr of a RAM.  Key 0 names no beat.
Key(ram, ptr, n) == [ram |-> ram, ptr |-> ptr, n |-> n]
ZeroKey == Key(1, 0, 0)

\* A router: the beats of both RAMs, the RAM in use, the beats of the key
\* under construction, its open indirection, and whether memory ran out.
NewRouter == [beats |-> <<<< <<>> >>, << <<>> >>>>, ram |-> 1, numBeats |-> 1,
              prevInd |-> NoInd, full |-> FALSE]

Table(r) == r.beats[r.ram]
Chunks(rec) == IF rec.kind = "MRM" THEN 2 ELSE 1
NumChunks(r) == FoldLeft(LAMBDA n, rec : n + Chunks(rec), 0, Last(Table(r)))

\* The record goes to the beat under construction.
AddToBeat(r, rec) ==
  [r EXCEPT !.beats[r.ram][Len(Table(r))] = Append(@, rec)]

SetIND(r, at, key) ==
  IF at = NoInd THEN r
  ELSE [r EXCEPT !.beats[r.ram][at[1]][at[2]].key = key]

\* Close the current beat and open the next.  The beat that makes the key as
\* long as a key can be starts with an indirection to the beats after it.
NextBeat(r) ==
  LET grown == [r EXCEPT !.beats[r.ram] = Append(@, <<>>), !.numBeats = @ + 1,
                         !.full = @ \/ Len(Table(r)) + 1 >= RouterBeats]
      len == Len(Table(grown))
      linked == SetIND(grown, r.prevInd,
                  Key(r.ram, len - MaxKeyBeats, MaxKeyBeats))
      opened == AddToBeat(linked, [kind |-> "IND", key |-> ZeroKey])
  IN  IF grown.numBeats % MaxKeyBeats = 0
      THEN [opened EXCEPT !.prevInd = <<len, 1>>] ELSE grown

\* addIND, addMRM, addRR, addURM1: a record that does not fit in the beat
\* goes to a new one.
AddRecord(r, rec) ==
  AddToBeat(IF NumChunks(r) + Chunks(rec) > ChunksPerBeat
            THEN NextBeat(r) ELSE r, rec)

\* The key of the records added since the last key.  The next key goes to
\* the RAM with the shorter table.
GenKeyIndex(r) == Len(Table(r)) - r.numBeats

GenKey(r) ==
  LET tail == r.numBeats % MaxKeyBeats
      done == SetIND(r, r.prevInd, Key(r.ram, Len(Table(r)) - tail, tail))
      next == NextBeat(done)
  IN  [key |-> Key(r.ram, GenKeyIndex(r),
                   IF r.prevInd # NoInd THEN MaxKeyBeats ELSE r.numBeats),
       router |-> [next EXCEPT !.numBeats = 1, !.prevInd = NoInd,
                     !.ram = IF Len(next.beats[1]) < Len(next.beats[2])
                             THEN 1 ELSE 2]]

------------------------------------------------------------------------------
BoardOfMbox(mbox) == mbox \div NumMailboxes
DestX(mbox) == BoardOfMbox(mbox) % MeshX
DestY(mbox) == BoardOfMbox(mbox) \div MeshX
BoardAt(x, y) == y * MeshX + x

\* Where a destination lies as seen from board (x, y): columns first.
Direction(x, y, dest) ==
  CASE DestX(dest.mbox) < x -> "W"
    [] DestX(dest.mbox) > x -> "E"
    [] DestY(dest.mbox) < y -> "S"
    [] DestY(dest.mbox) > y -> "N"
    [] OTHER -> "local"

Hop(x, y, dir) == CASE dir = "N" -> <<x, y + 1>> [] dir = "S" -> <<x, y - 1>>
                    [] dir = "E" -> <<x + 1, y>> [] dir = "W" -> <<x - 1, y>>

\* addDestsFromBoardXY: the tables of the neighbours that lead to remote
\* destinations are built first, then this board's records and key.
RECURSIVE AddDests(_, _, _, _)
AddDests(routers, x, y, dests) ==
  IF dests = <<>> THEN [key |-> ZeroKey, routers |-> routers]
  ELSE
    LET b == BoardAt(x, y)
        To(dir) == SelectSeq(dests, LAMBDA d : Direction(x, y, d) = dir)
        AddRR(rs, dir) ==
          IF To(dir) = <<>> THEN rs
          ELSE LET sub == AddDests(rs, Hop(x, y, dir)[1], Hop(x, y, dir)[2],
                                   To(dir))
               IN  [sub.routers EXCEPT ![b] = AddRecord(@,
                     [kind |-> "RR", dir |-> dir, key |-> sub.key])]
        remote == FoldLeft(AddRR, routers, <<"N", "S", "E", "W">>)
        local == FoldLeft(AddRecord, remote[b], To("local"))
        gen == GenKey(local)
    IN  [key |-> gen.key, routers |-> [remote EXCEPT ![b] = gen.router]]

------------------------------------------------------------------------------
\* What the routers do with a message that carries a key: the records
\* Router-to-Mailbox it meets, on this board and, by Router-to-Router
\* records, on the next ones.
RECURSIVE Walk(_, _, _)
Walk(routers, b, key) ==
  LET recs == FlattenSeq(SubSeq(routers[b].beats[key.ram], key.ptr + 1,
                                key.ptr + key.n))
      Follow(rec) ==
        CASE rec.kind = "RR" ->
               LET to == Hop(b % MeshX, b \div MeshX, rec.dir)
               IN  Walk(routers, BoardAt(to[1], to[2]), rec.key)
          [] rec.kind = "IND" -> Walk(routers, b, rec.key)
          [] OTHER -> <<rec>>
  IN  FlattenSeq([i \in DOMAIN recs |-> Follow(recs[i])])
=============================================================================
