------------------------------ MODULE MCParts -------------------------------
(* Disk and card: three blocks of two bytes, numbered in base two, so that  *)
(* blocks 1 and 2 differ in the order of their bytes; a block past the end  *)
(* of the image, and a block address that fseek refuses.  Mapper: two       *)
(* blocks.  WPC: two keys and two pages.  Host monitor: two shells, two     *)
(* descriptors, and a profile that shares a slot with VOLATCO-A.            *)
(* Expressions: two names in one chain, a table of four values' chains, two *)
(* map files, one of which redefines a name.  Loader: files of two records  *)
(* that overlap, each of them intact or with one thing wrong.               *)
EXTENDS Parts

MCZero   == <<0, 0>>
MCErased == <<255, 255>>
MCSdData == {<<0, 1>>}
MCDiskData == {MCZero, MCErased}
MCImages == {<<MCZero>>}
MCPort   == [p \in Profiles |-> p]

Num(v) == <<"num", v>>
Op(op) == <<"op", op>>
Sym(n) == <<"sym", n>>
MCHashOfName == [n \in {"a", "b"} |-> 0]
MCPrints ==
  {<<<<"&", "b">>, Op("*"), Num(2), Op("+"), Num(3)>>,
   <<Sym("a"), Op("=="), Sym("b"), Op("-"), Num(1)>>,
   <<Num(7), Op("-"), <<"$$", 0>>, Op("+"), <<"$", 1>>, Op("/"), Sym("b")>>,
   <<Sym("a"), Op("="), Num(2), Op("!="), Sym("a")>>,
   <<<<"$$", 1>>, Op("-"), Num(2), Op("-"), Sym("a")>>}
MCAssignments == {<<"a", <<Num(6), Op("+"), Sym("b")>>>>}
MCVariables == {<<"b", <<<<"&", "a">>, Op("-"), Num(6)>>>>}
MCMapFiles == {<<<<"a", 1>>, <<"b", 3>>>>, <<<<"b", 1>>>>}

Record(type, count, addr, bytes) == [type |-> type, count |-> count, addr |-> addr, bytes |-> bytes]
\* A data record with the right checksum, and what may be wrong with it.
Sound(f, addr, bytes) ==
  LET count == Len(bytes) + Formats[f].overhead
      sum == count + addr + Sum(bytes)
  IN  Record(Formats[f].data, count, addr,
             Append(bytes, (IF f = "s19" THEN -1 - sum ELSE -sum) % ByteValues))
Variants(r) ==
  {r, [r EXCEPT !.count = @ + 1], [r EXCEPT !.count = 2], [r EXCEPT !.type = 5], [r EXCEPT !.type = -1],
   [r EXCEPT !.bytes = Front(@)], [r EXCEPT !.bytes = << >>], [r EXCEPT !.bytes = Append(@, 7)],
   [r EXCEPT !.bytes[1] = (@ + 1) % ByteValues]}
FilesOf(f) ==
  {[format |-> f, lines |-> <<a, b>> \o end] :
     a \in Variants(Sound(f, 0, <<5, 9>>)), b \in Variants(Sound(f, 1, <<6>>)),
     end \in {<< >>, <<Record(Formats[f].end, Formats[f].overhead, 0, <<0>>)>>}}
  \cup {[format |-> f, lines |-> << >>]}
MCImageFiles == FilesOf("s19") \cup FilesOf("hex")
=============================================================================
