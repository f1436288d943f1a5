------------------------------ MODULE MCVolumes ------------------------------
(* Small disks for Volumes, of 12 of the smallest blocks.  A disk is named by *)
(* its family and the choices made in it.                                    *)
EXTENDS Volumes, TLC

E(start, len, k) == [start |-> start, len |-> len, kind |-> k, ok |-> TRUE]
None == E(0, 0, "part")
Bad == [None EXCEPT !.ok = FALSE]
Lone(entries) == [start |-> 0, len |-> 1, head |-> 1, entries |-> entries]
Gpt(entries, h) == [start |-> 2, len |-> 1, head |-> h, entries |-> entries]

Blank == [size |-> 12, sector |-> 1, bad |-> {}, fat |-> FALSE, mbr |-> NULL,
          ext |-> << >>, labels |-> << >>]
Labelled(labels) == [Blank EXCEPT !.labels = labels]
Mbrs == <<NULL, Lone(<<E(1, 11, "safety"), None>>), Lone(<<E(4, 2, "part"), None>>),
          Lone(<<E(1, 0, "safety"), None>>), Lone(<<E(1, 0, "safety"), E(4, 6, "ext")>>)>>

\* DOS tables: parts that overlap, begin at the same sector, are out of order,
\* are empty, or lie outside the image; extended partitions first, second, twice,
\* with tables in a circle.
DosEntries == <<None, E(1, 3, "part"), E(4, 6, "part"), E(14, 3, "part"),
                E(1, 3, "ext"), E(4, 6, "ext"), E(14, 3, "ext")>>
Exts == <<<< >>,
          4 :> <<E(1, 2, "part"), E(4, 3, "ext")>> @@ 8 :> <<E(1, 2, "part"), E(2, 2, "ext")>> @@
          6 :> <<E(9, 1, "ext"), E(1, 1, "part"), E(4, 1, "ext"), None>>,
          1 :> <<E(3, 2, "part"), E(5, 2, "ext"), E(9, 1, "ext")>> @@ 6 :> <<E(1, 1, "part")>>>>
Dos(i, j, k) == [Blank EXCEPT !.mbr = Lone(<<DosEntries[i], DosEntries[j], E(9, 2, "part"), None>>),
                              !.ext = Exts[k]]

\* A GPT behind a table that protects it, itself or only in its extended one, at
\* either block size, with its copy.
GptEntries == <<<<E(4, 3, "part"), None, E(9, 2, "part")>>, <<E(14, 1, "part")>>,
                <<E(3, 2, "part"), Bad>>, <<E(9, 2, "part"), E(4, 5, "part")>>>>
GptDisk(i, j, k, m, d) ==
  [Labelled((<<"gpt", 1 + (k % 2)>> :> Gpt(GptEntries[i], 1)) @@ (<<"backup", 1 + k \div 2>> :> Gpt(GptEntries[j], 1 + (m % 2))))
     EXCEPT !.mbr = Mbrs[m], !.ext = 4 :> <<E(1, 2, "safety")>>, !.sector = 1 + (d % 2), !.bad = IF d < 2 THEN {} ELSE {1}]

\* Mac maps at both block sizes, the first of them cut short.
MacEntries == <<<<E(1, 2, "free"), E(3, 4, "part")>>, <<E(2, 3, "part"), E(7, 2, "part"), Bad>>,
                <<E(4, 2, "part")>>, <<None>>>>
Mac(i, j, s) ==
  [Labelled((<<"mac", 1>> :> Lone(MacEntries[i])) @@ (<<"mac", 2>> :> Lone(MacEntries[j])))
     EXCEPT !.sector = s]

\* Two types on one disk.
Names2 == <<"bsd", "gpt", "backup", "sun0", "sun1", "mac">>
Others == <<<<E(0, 12, "part"), E(2, 5, "part")>>, <<E(0, 12, "whole"), E(3, 2, "part")>>,
            <<E(15, 1, "part")>>>>
Mixed(a, b, e, m, f) ==
  [Labelled([x \in {<<Names2[a], 1>>, <<Names2[b], 1>>} |-> Lone(Others[e])])
     EXCEPT !.mbr = Mbrs[m], !.fat = f = 2]

Names ==
  ({"dos"} \X (1..7) \X (1..7) \X (1..3) \X {1} \X {1}) \union
  ({"gpt"} \X (1..4) \X (1..4) \X (0..3) \X (1..5) \X (0..3)) \union
  ({"mac"} \X (1..4) \X (1..4) \X (1..2) \X {1} \X {1}) \union
  {n \in {"mixed"} \X (1..6) \X (1..6) \X (1..3) \X (1..3) \X (1..2) : n[2] <= n[3]}

MCDisks ==
  [n \in Names |->
     CASE n[1] = "dos" -> Dos(n[2], n[3], n[4])
       [] n[1] = "gpt" -> GptDisk(n[2], n[3], n[4], n[5], n[6])
       [] n[1] = "mac" -> Mac(n[2], n[3], n[4])
       [] OTHER -> Mixed(n[2], n[3], n[4], n[5], n[6])]
MCSizes == <<1, 2>>

MCPrograms == {{"image", "vs", "volume", "fs", "file", "dir", "entry"},
               {"image", "vs", "volume", "pool", "img1", "img2", "pfs1", "pfs2", "pfile"}}
MCFollowed == {<<"dos", 3, 1, 1, 1, 1>>, <<"mac", 4, 4, 1, 1, 1>>}
=============================================================================
