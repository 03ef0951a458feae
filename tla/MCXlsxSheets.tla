----------------------------- MODULE MCXlsxSheets -----------------------------
(* The files TLC checks of XlsxSheets and DirectExtraction. *)
EXTENDS DirectExtraction, TLC

CONSTANTS f1, f2, f3

Two == <<"text", "text">>
TextNumber == <<"text", "number">>
Blank == <<"empty", "empty">>
Remark == <<"note", "empty">>

\* A title above the header, notes and empty rows between the data; two sheets of
\* different widths; and a sheet of three columns.
Mixed == <<<<"text", "empty">>, Two, TextNumber, Blank, TextNumber, Remark, Blank, TextNumber,
           Blank, Blank, Blank, TextNumber>>
Plain == <<Two, TextNumber, TextNumber>>
Narrow == <<<<"text">>, <<"number">>, <<"number">>>>
Wide == <<<<"text", "text", "text">>, <<"text", "number", "number">>, <<"text", "text", "number">>>>

\* Every sheet of three rows and two columns.
SmallSheets == [1 .. 3 -> [1 .. 2 -> {"empty", "text", "number"}]]

\* f1 and f2 are jobs, f3 is extracted directly.
Workbooks(v, w, direct) == f1 :> v @@ f2 :> w @@ f3 :> direct
Uploads ==
  {Workbooks(v, w, <<>>) : v \in {<<Mixed>>, <<Plain, Narrow>>, <<<<>>, Wide, Plain>>},
                        w \in {<<Plain>>, <<Wide, <<Blank>>, Plain>>}}
  \union {Workbooks(<<Mixed>>, <<Plain>>, <<Plain, Wide>>)}
  \union {Workbooks(<<s>>, <<>>, <<>>) : s \in SmallSheets}
  \union {Workbooks(<<>>, <<>>, <<>>), Workbooks(<<Narrow>>, <<>>, <<Wide>>)}

\* Pages on both sides of the two thresholds: pages of up to three items, and a line of ten.
At(x, y) == [x |-> x, y |-> y]
SmallPages ==
  UNION {[1 .. n -> {At(x, y) : x \in {0, 25, 26}, y \in {0, 12, 13}}] : n \in 0 .. 2}
  \union [1 .. 3 -> {At(x, y) : x \in {0, 26}, y \in {0, 12, 13, 24}}]
Lines == {[i \in 1 .. 10 |-> At(26 * i - IF i < k THEN i ELSE k, 0)] : k \in {0, 5, 10}}

Digital(pages) == [marker |-> FALSE, header |-> TRUE, printable |-> 40,
                   ocrLines |-> <<>>, pages |-> pages]
Scan == [marker |-> TRUE, header |-> TRUE, printable |-> 40,
         ocrLines |-> <<"text", "blank", "text">>, pages |-> <<>>]
Image == [marker |-> FALSE, header |-> FALSE, printable |-> 24,
          ocrLines |-> <<>>, pages |-> <<>>]
Broken == [Image EXCEPT !.printable = 25]

PostsTogether ==
  {<< <<>>, u >> : u \in Uploads}
  \union {<< <<Digital(<<page>>)>>, Workbooks(<<>>, <<>>, <<>>) >> : page \in SmallPages \union Lines}
  \union {<< <<Digital(<< <<At(0, 0)>>, <<>>, <<At(0, 0), At(9, 13)>> >>), Scan, Image, Broken>>,
             Workbooks(<<Narrow>>, <<>>, <<Wide>>) >>}
=============================================================================
