-------------------------- MODULE MCIntakePlanning --------------------------
(* Instances of IntakePlanning: names, contents and incoming folders.        *)
EXTENDS IntakePlanning, TLC

Fact == [tokens |-> {}, network |-> None, hints |-> {}, sidecar |-> 0, scratch |-> FALSE,
         statement |-> FALSE, slug |-> 1, mark |-> 0]

(* Names: 1, 2 folders; 3, 4 files; 5, 6 folders of one day, 7 of the next;    *)
(* 8 a report and 9 the folder beside it; 10 an address; 11 a statement;       *)
(* 12 test.csv; 13 another folder of the day of 5 and 6; 14 a file.            *)
MCNameFacts ==
  [n \in 1 .. 14 |->
     CASE n = 5 -> [Fact EXCEPT !.slug = 5, !.mark = 13]
       [] n = 6 -> [Fact EXCEPT !.slug = 6, !.mark = 11]
       [] n = 7 -> [Fact EXCEPT !.slug = 7, !.mark = 21]
       [] n = 8 -> [Fact EXCEPT !.slug = 8, !.hints = {3}]
       [] n = 9 -> [Fact EXCEPT !.slug = 9, !.hints = {3}, !.sidecar = 8]
       [] n = 10 -> [Fact EXCEPT !.slug = 10, !.tokens = {"evm:1"}, !.network = "polygon"]
       [] n = 11 -> [Fact EXCEPT !.slug = 11, !.hints = {1}, !.statement = TRUE]
       [] n = 12 -> [Fact EXCEPT !.slug = 12, !.scratch = TRUE]
       [] n = 13 -> [Fact EXCEPT !.slug = 13, !.mark = 12]
       [] OTHER -> [Fact EXCEPT !.slug = n]]

Data == [size |-> 1, zip |-> "no", members |-> <<>>, rows |-> <<>>, title |-> {},
         network |-> None, times |-> {}, header |-> {}, asof |-> 0]
Archive(size, members) == [Data EXCEPT !.size = size, !.zip = "zip", !.members = members]
M(path, ext, body, attr) == [path |-> path, ext |-> ext, body |-> body, attr |-> attr]
F(path, ext, body) == [path |-> path, ext |-> ext, body |-> body]

MCContents ==
  [c \in 1 .. 15 |->
     CASE c = 1 -> [Data EXCEPT !.times = {11, 12}, !.header = {1}]
       [] c = 2 -> [Data EXCEPT !.times = {21}, !.header = {1}, !.size = 2]
       [] c = 3 -> [Data EXCEPT !.header = {1}, !.size = 2]
       [] c = 4 -> [Data EXCEPT !.rows = <<{"evm:1", "evm:2"}, {"evm:1"}>>, !.times = {15}]
       [] c = 5 -> [Data EXCEPT !.rows = <<{"evm:3"}>>, !.network = "polygon", !.size = 3]
       [] c = 6 -> [Data EXCEPT !.asof = 2]
       [] c = 7 -> Archive(2, <<M(<<3>>, "csv", 1, "file"), M(<<4>>, "csv", 2, "file")>>)
       [] c = 8 -> Archive(2, <<M(<<3>>, "csv", 1, "file")>>)
       [] c = 9 -> Archive(2, <<M(<<1>>, "txt", 3, "dir"), M(<<>>, "txt", 3, "file"),
                            M(<<3>>, "csv", 1, "file"), M(<<3>>, "csv", 2, "file"),
                            M(<<3, 4>>, "csv", 3, "encrypted_archive_member")>>)
       [] c = 10 -> Archive(1, <<M(<<1>>, "zip", 8, "file"), M(<<4>>, "csv", 2, "file")>>)
       [] c = 11 -> Archive(1, <<M(<<2, 1>>, "zip", 10, "file"), M(<<4>>, "csv", 5, "file")>>)
       [] c = 12 -> [Data EXCEPT !.zip = "bad"]
       [] c = 13 -> Archive(1, <<M(<<3>>, "csv", 2, "unreadable"), M(<<4>>, "csv", 1, "corrupt"),
                             M(<<5>>, "csv", 2, "file")>>)
       [] c = 14 -> Archive(4, <<>>)
       [] c = 15 -> Archive(1, <<M(<<12>>, "csv", 1, "file"), M(<<3, 12>>, "csv", 2, "file")>>)]

MCAdapterId == <<"binance", "ledger", "cointracking">>
MCLocations == {[id |-> "evm:1", source |-> "s1"], [id |-> "evm:3", source |-> "s2"],
                [id |-> "evm:3", source |-> "s1"]}
MCInventory == {"s1", "binance"}

Drop(listed, labels) ==
  [files |-> listed, scope |-> "in", incoming |-> "", mark |-> 0, labels |-> labels, report |-> 1]
Row(scope, prefix, source) == [ok |-> TRUE, scope |-> scope, prefix |-> prefix, source |-> source]

(* Packages: the folders of a drop with a choice of two files in each. *)
Folder(n, x, y) ==
  (IF x = 0 THEN <<>> ELSE <<F(<<n, 3>>, "csv", x)>>)
    \o (IF y = 0 THEN <<>> ELSE <<F(<<n, 4>>, "csv", y)>>)
Packages2 ==
  {Drop(Folder(a, x[1], x[2]) \o Folder(b, y[1], y[2]), <<>>) :
     a \in {1, 5}, b \in {2, 6, 7}, x \in (1 .. 2) \X (0 .. 3), y \in (0 .. 3) \X (1 .. 2)}
Packages3 ==
  {Drop(Folder(5, x[1], x[2]) \o Folder(6, y[1], y[2]) \o Folder(c, z[1], z[2]), <<>>) :
     c \in {2, 7}, x, y, z \in (1 .. 2) \X (0 .. 2)}
(* Three exports of one day: the second brings a file the first lacks, the     *)
(* third another version of it and one more.                                   *)
Versions ==
  {Drop(Folder(5, 1, a) \o Folder(6, 1, b) \o Folder(13, 1, c)
          \o (IF d = 0 THEN <<>> ELSE <<F(<<13, 14>>, "csv", d)>>), <<>>) :
     a, b, c, d \in {0, 2, 3}}
(* Archives: each kind of member and of archive, two of them in a drop. *)
Archives ==
  {[Drop(l, <<>>) EXCEPT !.incoming = "binance"] :
     l \in {<<F(<<1>>, "zip", a), F(<<2>>, "zip", b)>> : a, b \in 7 .. 14}
        \cup {<<F(<<1>>, "tar", 3), F(<<2>>, "zip", a), F(<<3>>, "csv", 1)>> : a \in 7 .. 14}}
(* Routes and labels: what the adapters, the map and the inventory decide. *)
Routed == <<F(<<1, 3>>, "csv", 1), F(<<2, 3>>, "csv", 2)>>
Maps ==
  {<<>>, <<Row("", <<>>, "s1")>>, <<Row("", <<<<1>>>>, "s1")>>, <<Row("in", <<>>, "s1")>>,
   <<Row("", <<<<1>>>>, "nobody")>>, <<Row("in", <<>>, "s1"), Row("", <<<<1>>>>, "binance")>>,
   <<Row("", <<>>, "s1"), Row("", <<>>, "binance")>>,
   <<Row("", <<>>, "s1"), Row("", <<<<2, 3>>>>, "")>>,
   <<[ok |-> FALSE, scope |-> "", prefix |-> <<>>, source |-> "s1"]>>}
Labelled == {Drop(Routed, m) : m \in Maps}
   \cup {Drop(<<F(<<1, 3>>, "csv", 1), F(<<2, 3>>, "csv", 1)>>, m) : m \in Maps}
Kinds ==
  {Drop(<<f>>, <<>>) : f \in {F(<<8>>, "html", 6), F(<<9, 3>>, "txt", 3), F(<<10, 3>>, "csv", 3),
                              F(<<3>>, "csv", 4), F(<<3>>, "csv", 5), F(<<12>>, "csv", 1),
                              F(<<11>>, "pdf", 3), F(<<11>>, "xlsx", 3), F(<<3>>, "xlsx", 3),
                              F(<<3>>, "pdf", 3), F(<<3>>, "txt", 3)}}
   \cup {Drop(<<F(<<8>>, "html", 6), F(<<9, 3>>, "txt", 3), F(<<3>>, "csv", 4)>>, <<>>),
         [Drop(<<F(<<3>>, "pdf", 3)>>, <<>>) EXCEPT !.incoming = "s1", !.mark = 11]}
   \cup {Drop(<<F(<<1>>, "zip", 15)>>, <<>>)}

(* Two folders of one name in different places, with a file of one name, and   *)
(* a third that shares a file with them.                                       *)
SameNames ==
  {Drop(<<F(<<1, 2, 3>>, "csv", 1), F(<<2, 2, 3>>, "csv", 2)>>, <<>>)}
SameNamesOf ==
  {Drop(<<F(<<1, 2, 3>>, "csv", a), F(<<2, 2, 3>>, "csv", b), F(<<4, 3>>, "csv", c)>>, <<>>) :
     a, b, c \in 1 .. 3}

(* Drops that follow one another: the same files, some of them, other maps. *)
MCSeries ==
  {Drop(Routed, m) : m \in {<<>>, <<Row("", <<>>, "s1")>>}}
   \cup {Drop(<<F(<<1, 3>>, "csv", 1), F(<<2, 4>>, "csv", 3)>>, <<>>),
         [Drop(<<F(<<2, 4>>, "csv", 3)>>, <<>>) EXCEPT !.report = 2]}

(* Two archives with a member in common, each under a line of the map. *)
Twins ==
  {Drop(<<F(<<1>>, "zip", 7), F(<<2>>, "zip", 8)>>,
        <<Row("", <<<<1>>>>, first), Row("", <<<<2>>>>, second)>>) :
     first, second \in {"nobody", "s1"}}

MCDrops == Packages2 \cup Packages3 \cup Versions \cup Archives \cup Labelled \cup Kinds
             \cup Twins \cup SameNamesOf \cup MCSeries

NoSeries == {}
=============================================================================
