--------------------------- MODULE MCSanitiseFile ---------------------------
(***************************************************************************)
(* Small instances of SanitiseFile for TLC.  The page limit is 2.          *)
(***************************************************************************)
EXTENDS SanitiseFile

CleanPage == [a4 |-> TRUE, ink |-> "inside", box |-> << >>]
TaggedPage == [CleanPage EXCEPT !.box = <<"NOTIFY">>]

Boxes == {<< >>, <<"NOTIFY">>, <<"other">>, <<"NOTIFY", "NOTIFY">>,
          <<"NOTIFY", "other">>}
MCPage == [a4 : BOOLEAN, ink : Ink, box : Boxes]

GoodAddress == [faults |-> {}, last_line |-> "postcode"]
(* No fault, a fault of each kind, and two of them, with every last line.  *)
MCAddress ==
  [faults : {{}, {"not-enough-address-lines"}, {"no-fixed-abode-address"},
             {"address-is-empty", "not-enough-address-lines"},
             {"invalid-char-in-address", "invalid-address-line-1-or-2"}},
   last_line : {"postcode", "country", "other"}]

MCDocument(pages, address) ==
  [readable |-> TRUE, pages |-> pages, address |-> address]

(* Every letter of up to two pages, one that is too long, one that cannot  *)
(* be read, and every address on a clean page and on one with a tag.       *)
Letters ==
  {MCDocument(pages, GoodAddress) :
     pages \in [1..1 -> MCPage] \cup [1..2 -> MCPage]}
    \cup {MCDocument(<<CleanPage, CleanPage, CleanPage>>, GoodAddress),
          [MCDocument(<<CleanPage>>, GoodAddress) EXCEPT !.readable = FALSE]}
    \cup {MCDocument(<<page>>, address) :
            page \in {CleanPage, TaggedPage}, address \in MCAddress}

MCPdf(doc, images, drawn, unembedded) ==
  [doc |-> doc, images |-> images, drawn |-> drawn, unembedded |-> unembedded,
   addressed |-> FALSE, tag_added |-> FALSE, whole |-> TRUE]

MCUpload(pdfs) ==
  [pdf : pdfs, is_an_attachment : BOOLEAN,
   allow_international_letters : BOOLEAN]

(* For the checks, every letter in plain black and white; for the steps    *)
(* after them, every use of colours and fonts.                             *)
MCUploads ==
  MCUpload({MCPdf(letter, {}, {}, FALSE) : letter \in Letters}
             \cup {MCPdf(MCDocument(<<page, CleanPage>>, GoodAddress),
                         images, drawn, unembedded) :
                     page \in {CleanPage, TaggedPage},
                     images \in SUBSET Colourspace,
                     drawn \in SUBSET Colourspace, unembedded \in BOOLEAN})

=============================================================================
