---------------------------- MODULE MCForeignLog ----------------------------
(* Logs laid out from histories: a list of transactions, each a set of     *)
(* revoked blocks and a list of writes, the last one perhaps unfinished.   *)
EXTENDS ForeignLogInv, SequencesExt

CONSTANTS sb, a, b

Plain(x) == [body |-> x, head |-> "plain", recover |-> FALSE]
Magic(x) == [body |-> x, head |-> "magic", recover |-> FALSE]

Txn(revokes, blks, c) ==
  [revokes |-> revokes, writes |-> [k \in DOMAIN blks |-> [blk |-> blks[k], data |-> c]]]

(* The blocks of a transaction with sequence number s. *)
LogOf(t, s, end) ==
  (IF t.revokes = {} THEN << >> ELSE << RevokeBlock(s, t.revokes) >>)
  \o << DescriptorBlock(s, [k \in DOMAIN t.writes |->
                              TagOf(t.writes[k].blk, t.writes[k].data, s)]) >>
  \o [k \in DOMAIN t.writes |-> DataBlock(Escape(t.writes[k].data))]
  \o (CASE end = "whole" -> << CommitBlock(s) >>
        [] end = "torn"  -> << [CommitBlock(s) EXCEPT !.ok = FALSE] >>
        [] end = "cut"   -> << >>)

(* Sequence numbers s, s+1, ... *)
Plus(s, n) == (s + n) % SeqLimit

LogOfAll(ts, s, end) ==
  FlattenSeq([k \in DOMAIN ts |->
                LogOf(ts[k], Plus(s, k - 1), IF k = Len(ts) THEN end ELSE "whole")])

(* The ring from position st on; the rest still holds the epoch before. *)
Layout(blocks, st, s) ==
  [p \in LogPos |->
     LET i == 1 + ((p - st + LogSize) % LogSize)
     IN  IF i <= Len(blocks) THEN blocks[i] ELSE CommitBlock(Plus(s, SeqLimit - 1))]

Dirty(ts, st, s, end) ==
  [home |-> [x \in FsBlock |-> [Plain(0) EXCEPT !.recover = (x = SB)]],
   log |-> Layout(LogOfAll(ts, s, end), st, s), start |-> st, seq |-> s]

Early == {Txn({}, <<x>>, Magic(1)) : x \in {a, b}} \cup {Txn({}, <<a, b>>, Plain(1))}
Late  == {Txn(r, ws, Plain(2)) : r \in {{}, {a}, {b}}, ws \in {<<a>>, <<b>>, <<sb>>}}

(* Two transactions: positions that do and do not wrap, sequence numbers   *)
(* that do and do not.                                                     *)
TwoTxns ==
  {Dirty(<<t, u>>, st, s, "whole") : t \in Early, u \in Late, st \in {1, 8}, s \in {1, 7}}

(* An unfinished transaction after a committed one, and on its own.        *)
Unfinished ==
  {Dirty(<<t, u>>, 1, 1, e) : t \in Early, u \in Late, e \in {"cut", "torn"}}
  \cup {Dirty(<<u>>, 1, 1, "cut") : u \in Late}

(* The three transactions of the comment above is_revoked.                 *)
Revoking ==
  {Dirty(<<Txn({}, <<b>>, Plain(1)), Txn({b}, <<a>>, Plain(1)), Txn({}, <<b>>, Magic(2))>>,
         1, s, "whole") : s \in {1, 6}}

(* More blocks than the map of a read-only mount holds, more revoked blocks *)
(* than the revoke table holds.                                             *)
Large ==
  {Dirty(<<Txn({}, <<a, b>>, Plain(1)), Txn({}, <<sb>>, Plain(2))>>, 1, 1, "whole"),
   Dirty(<<Txn({}, <<a>>, Plain(1)), Txn({a, b}, <<sb>>, Plain(2))>>, 1, 1, "whole")}

ForeignDisks == TwoTxns \cup Unfinished \cup Revoking \cup Large

(* Two small transactions from the start of the log, and one to commit.    *)
TwoSmall == {Dirty(<<Txn({}, <<a>>, Plain(1)), Txn({}, <<b>>, Plain(1))>>, 1, 1, "whole")}
OneBlock == {<< [blk |-> b, body |-> 2, head |-> "plain"] >>}

(* Any arrangement of four headers, repeated around the ring, at the       *)
(* sequence number the journal superblock gives and at another one.        *)
Pieces == {RevokeBlock(1, {}), CommitBlock(1), DataBlock(Zero),
           DescriptorBlock(1, <<TagOf(a, Zero, 1)>>),
           DescriptorBlock(1, <<TagOf(a, Zero, 1), TagOf(b, Zero, 1)>>)}
Corrupt ==
  {[home |-> [x \in FsBlock |-> Plain(0)],
    log |-> [p \in LogPos |-> l[p % 4]], start |-> st, seq |-> s] :
     l \in [0 .. 3 -> Pieces], st \in {1, 2}, s \in {1, 5}}

AnyDisks == ForeignDisks \cup Corrupt
==============================================================================
