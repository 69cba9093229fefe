-------------------------------- MODULE MCFile --------------------------------
(***************************************************************************)
(* Instances of ExportFile for TLC: files of up to MaxRows rows, with rows *)
(* lost, repeated, out of order, beyond the boundary or with a corrupt id, *)
(* under the header line, an older, narrower one, or none.                 *)
(***************************************************************************)
EXTENDS ExportFile, TLC

CONSTANT MaxRows

GoodIds == {<<"1">>, <<"2">>, <<"3">>, <<"4">>}
Ids     == GoodIds \cup {<<>>, <<"x">>, <<"1", ".", "0">>, <<"2", ".", "5">>}
Names   == {<<Quote, "x", Quote, Comma>>, <<LF, Quote>>, <<CR>>}

RowsUpTo(fields) == UNION {[1..k -> fields] : k \in 0..MaxRows}

WideRows   == RowsUpTo({<<id, name>> : id \in GoodIds, name \in Names})
NarrowRows == RowsUpTo({<<id>> : id \in Ids})
PlainRows  == RowsUpTo({<<id, <<"n">>>> : id \in Ids})

NarrowHeader == <<CSV_COLUMNS[1]>>

MCFiles == {FileOf(<<CSV_COLUMNS>>, rows)  : rows \in WideRows \cup PlainRows \cup NarrowRows} \cup
           {FileOf(<<NarrowHeader>>, rows) : rows \in PlainRows \cup NarrowRows} \cup
           {FileOf(<<>>, rows)             : rows \in PlainRows}

AllTexts == Ids \cup Names \cup ToSet(CSV_COLUMNS)
=============================================================================
