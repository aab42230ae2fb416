---------------------------- MODULE SanitiseFile ----------------------------
(***************************************************************************)
(* sanitise_file_contents, step by step, on one uploaded PDF: the checks,  *)
(* the new address block, the conversion to CMYK, the fonts and the NOTIFY *)
(* tag.                                                                    *)
(*                                                                         *)
(* The PDF travels from step to step in a BytesIO, a stream with a         *)
(* position.  pypdf leaves the position anywhere; PyMuPDF ignores it;      *)
(* Ghostscript and the final read() are given what is between the position *)
(* and the end.  Any step may raise an exception nobody expected.          *)
(***************************************************************************)
EXTENDS SanitiseContract

CONSTANT Uploads    \* the requests: a PDF and the arguments of the call

Colourspace == {"RGB", "CMYK"}

(* What the steps after the checks look at and change: the colour spaces   *)
(* of its images and of everything else drawn on its pages, whether a font *)
(* is missing, whether Notify wrote the address and its tag, and whether   *)
(* no part of the file has been cut off.                                   *)
Pdf == [doc : Document, images : SUBSET Colourspace,
        drawn : SUBSET Colourspace, unembedded : BOOLEAN,
        addressed : BOOLEAN, tag_added : BOOLEAN, whole : BOOLEAN]

Upload == [pdf : Pdf, is_an_attachment : BOOLEAN,
           allow_international_letters : BOOLEAN]

(* A file as it arrives.                                                   *)
AsUploaded(pdf) == pdf.whole /\ ~pdf.addressed /\ ~pdf.tag_added

ASSUME UploadsAssumption ==
  /\ Uploads \subseteq Upload
  /\ \A u \in Uploads : AsUploaded(u.pdf)
  /\ NULL \notin Pdf

VARIABLES
  upload,       \* encoded_string and the keyword arguments
  pc,           \* the next step
  file_data,    \* the stream: its PDF, and whether it is at the start
  page_count,   \* None until the pages have been counted
  recipient_address,
  details,      \* the dictionary returned, without its file
  file,         \* its file
  accident      \* an exception nobody expected was raised

input == <<upload, accident>>
locals == <<file_data, page_count, recipient_address>>
returned == <<details, file>>
vars == <<upload, pc, file_data, page_count, recipient_address, details, file,
          accident>>

Working == {"count", "size", "bounds", "tags", "metadata", "address", "redact",
            "write_address", "cmyk", "rgb", "convert", "fonts", "embed",
            "tag_present", "add_tag", "return"}

UploadedDoc == upload.pdf.doc
Stream(pdf, at_start) == [pdf |-> pdf, at_start |-> at_start]
NewStream(pdf) == Stream(pdf, TRUE)

Init ==
  /\ upload \in Uploads
  /\ pc = "count"
  /\ file_data = NewStream(upload.pdf)
  /\ page_count = NULL
  /\ recipient_address = NULL
  /\ details = NULL
  /\ file = NULL
  /\ accident = FALSE

-----------------------------------------------------------------------------
GoTo(step) == pc' = step /\ UNCHANGED returned

Return(result, pdf) ==
  /\ pc' = "done"
  /\ details' = result
  /\ file' = pdf

(* raise ValidationFailed                                                  *)
Fail(message, invalid_pages) ==
  Return(Result(page_count', message, invalid_pages, NULL), NULL)

(* pypdf reads a stream and leaves it at its start or elsewhere.           *)
Parsed == \E at_start \in BOOLEAN :
            file_data' = Stream(file_data.pdf, at_start)

Rewound == file_data' = NewStream(file_data.pdf)

(* What a reader gets that starts at the position: a part of the file when *)
(* that is not the start.                                                  *)
Read(stream) == [stream.pdf EXCEPT !.whole = @ /\ stream.at_start]

-----------------------------------------------------------------------------
(* The checks.                                                             *)

(* Mutant: nobody looks at the number of pages.                            *)
CountPages_AnyLength ==
  /\ pc = "count"
  /\ Parsed
  /\ IF UploadedDoc.readable
     THEN page_count' = Len(UploadedDoc.pages) /\ GoTo("size")
     ELSE page_count' = NULL /\ Return(Unreadable, NULL)
  /\ UNCHANGED <<input, recipient_address>>

(* pdf_page_count, and the first thing that can go wrong with a PDF.       *)
CountPages ==
  /\ pc = "count"
  /\ Parsed
  /\ IF UploadedDoc.readable
     THEN /\ page_count' = Len(UploadedDoc.pages)
          /\ IF IsLetterTooLong(page_count')
             THEN Fail("letter-too-long", NULL)
             ELSE GoTo("size")
     ELSE page_count' = NULL /\ Return(Unreadable, NULL)
  /\ UNCHANGED <<input, recipient_address>>

(* A check that blames pages ends the run, or leads to the next step.      *)
CheckPages(message, invalid_pages, next) ==
  /\ UNCHANGED <<input, page_count, recipient_address>>
  /\ IF invalid_pages # {} THEN Fail(message, invalid_pages) ELSE GoTo(next)

CheckSize ==
  /\ pc = "size"
  /\ Parsed
  /\ CheckPages("letter-not-a4-portrait-oriented", WrongSizePages(UploadedDoc),
                "bounds")

(* The white overlay is drawn on a copy, and the original rewound.         *)
CheckBounds ==
  /\ pc = "bounds"
  /\ Rewound
  /\ CheckPages("content-outside-printable-area",
                OutOfBoundsPages(UploadedDoc, upload.is_an_attachment), "tags")

CheckTags ==
  /\ pc = "tags"
  /\ UNCHANGED file_data
  /\ CheckPages("notify-tag-found-in-content",
                PagesWithNotifyTag(UploadedDoc, upload.is_an_attachment),
                IF upload.is_an_attachment THEN "cmyk" ELSE "metadata")

-----------------------------------------------------------------------------
(* rewrite_pdf, for a letter.                                              *)

LogMetadata ==
  /\ pc = "metadata"
  /\ Parsed
  /\ GoTo("address")
  /\ UNCHANGED <<input, page_count, recipient_address>>

(* Mutant: the service's permission is read after the address was checked. *)
ReadAddress_PermissionIgnored ==
  LET checks == AddressChecks(UploadedDoc.address, TRUE)
  IN  /\ pc = "address"
      /\ Rewound
      /\ UNCHANGED <<input, page_count>>
      /\ IF Failures(checks) # {}
         THEN /\ Fail(FirstFailure(checks).message, FirstFailure(checks).pages)
              /\ UNCHANGED recipient_address
         ELSE /\ recipient_address' = UploadedDoc.address
              /\ GoTo("redact")

(* The first of the address checks that fails ends the run.                *)
ReadAddress ==
  LET checks == AddressChecks(UploadedDoc.address,
                              upload.allow_international_letters)
  IN  /\ pc = "address"
      /\ Rewound
      /\ UNCHANGED <<input, page_count>>
      /\ IF Failures(checks) # {}
         THEN /\ Fail(FirstFailure(checks).message, FirstFailure(checks).pages)
              /\ UNCHANGED recipient_address
         ELSE /\ recipient_address' = UploadedDoc.address
              /\ GoTo("redact")

Redact ==
  /\ pc = "redact"
  /\ file_data' = NewStream(file_data.pdf)
  /\ GoTo("write_address")
  /\ UNCHANGED <<input, page_count, recipient_address>>

(* The address is drawn in black, an RGB colour to ReportLab.              *)
WriteAddress ==
  /\ pc = "write_address"
  /\ file_data' = NewStream([file_data.pdf EXCEPT
                               !.addressed = TRUE, !.drawn = @ \cup {"RGB"}])
  /\ GoTo("cmyk")
  /\ UNCHANGED <<input, page_count, recipient_address>>

-----------------------------------------------------------------------------
(* normalise_fonts_and_colours                                             *)

(* PyMuPDF lists the images of the PDF; nobody looks at what is drawn.     *)
DetectCMYK ==
  /\ pc = "cmyk"
  /\ Rewound
  /\ GoTo(IF "CMYK" \in file_data.pdf.images THEN "rgb" ELSE "convert")
  /\ UNCHANGED <<input, page_count, recipient_address>>

(* Mutant: a PDF that contains CMYK is left alone.                         *)
DetectRGB_NeverConverted ==
  /\ pc = "rgb"
  /\ Rewound
  /\ GoTo("fonts")
  /\ UNCHANGED <<input, page_count, recipient_address>>

DetectRGB ==
  /\ pc = "rgb"
  /\ Rewound
  /\ GoTo(IF "RGB" \in file_data.pdf.images THEN "convert" ELSE "fonts")
  /\ UNCHANGED <<input, page_count, recipient_address>>

(* convert_pdf_to_cmyk: images and drawings alike.                         *)
InCMYK(used) == IF used = {} THEN {} ELSE {"CMYK"}

(* Mutant: what is drawn on the pages keeps its colours.                   *)
Convert_ImagesOnly ==
  /\ pc = "convert"
  /\ file_data' = NewStream([Read(file_data) EXCEPT !.images = InCMYK(@)])
  /\ GoTo("fonts")
  /\ UNCHANGED <<input, page_count, recipient_address>>

Convert ==
  /\ pc = "convert"
  /\ file_data' = NewStream([Read(file_data) EXCEPT !.images = InCMYK(@),
                                                   !.drawn = InCMYK(@)])
  /\ GoTo("fonts")
  /\ UNCHANGED <<input, page_count, recipient_address>>

AfterFonts == IF upload.is_an_attachment THEN "return" ELSE "tag_present"

(* Mutant: contains_unembedded_fonts leaves the stream where pypdf does.   *)
FindFonts_NotRewound ==
  /\ pc = "fonts"
  /\ Parsed
  /\ GoTo(IF file_data.pdf.unembedded THEN "embed" ELSE AfterFonts)
  /\ UNCHANGED <<input, page_count, recipient_address>>

FindFonts ==
  /\ pc = "fonts"
  /\ Rewound
  /\ GoTo(IF file_data.pdf.unembedded THEN "embed" ELSE AfterFonts)
  /\ UNCHANGED <<input, page_count, recipient_address>>

EmbedFonts ==
  /\ pc = "embed"
  /\ file_data' = NewStream([Read(file_data) EXCEPT !.unembedded = FALSE])
  /\ GoTo(AfterFonts)
  /\ UNCHANGED <<input, page_count, recipient_address>>

-----------------------------------------------------------------------------
(* The tag of a letter, and the result.                                    *)

LookForTag ==
  /\ pc = "tag_present"
  /\ Rewound
  /\ GoTo(IF IsTag(UploadedDoc.pages[1].box) THEN "return" ELSE "add_tag")
  /\ UNCHANGED <<input, page_count, recipient_address>>

(* The tag is drawn in white, an RGB colour to ReportLab.                  *)
AddTag ==
  /\ pc = "add_tag"
  /\ file_data' = NewStream([file_data.pdf EXCEPT
                               !.tag_added = TRUE, !.drawn = @ \cup {"RGB"}])
  /\ GoTo("return")
  /\ UNCHANGED <<input, page_count, recipient_address>>

ReturnFile ==
  /\ pc = "return"
  /\ file_data' = Stream(file_data.pdf, FALSE)
  /\ Return(Result(page_count, NULL, NULL, recipient_address), Read(file_data))
  /\ UNCHANGED <<input, page_count, recipient_address>>

(* A PdfReadError of a later step, a Ghostscript that failed or was        *)
(* killed, a page PyMuPDF cannot read, a bug: "pretend it's invalid".      *)
Unexpected ==
  /\ pc \in Working
  /\ accident' = TRUE
  /\ Return(Unreadable, NULL)
  /\ UNCHANGED <<upload, locals>>

Next ==
  \/ CountPages \/ CheckSize \/ CheckBounds \/ CheckTags
  \/ LogMetadata \/ ReadAddress \/ Redact \/ WriteAddress
  \/ DetectCMYK \/ DetectRGB \/ Convert \/ FindFonts \/ EmbedFonts
  \/ LookForTag \/ AddTag \/ ReturnFile \/ Unexpected

Spec == Init /\ [][Next]_vars

-----------------------------------------------------------------------------
(* Properties.                                                             *)

(* Every variable keeps its type, and past the first check no letter has   *)
(* more pages than it may.                                                 *)
TypeOK ==
  /\ upload \in Uploads
  /\ pc \in Working \cup {"done"}
  /\ file_data \in [pdf : Pdf, at_start : BOOLEAN]
  /\ pc \in Working \ {"count"} => page_count \in 1..LETTER_MAX_PAGE_COUNT
  /\ recipient_address \in Address \cup {NULL}
  /\ file \in Pdf \cup {NULL}
  /\ accident \in BOOLEAN

Done == pc = "done"
Passed == Done /\ details.message = NULL

(* The steps keep the promise the callers rely on: the verdict is that of  *)
(* the first check that fails, it is "unable-to-read-the-file" when a step *)
(* was interrupted, and there is a file if and only if there is no message *)
(* (tasks.py: "Only files that have failed sanitisation have 'message'").  *)
MeetsContract ==
  Done => /\ details = IF accident THEN Unreadable
                       ELSE Verdict(UploadedDoc, upload.is_an_attachment,
                                    upload.allow_international_letters)
          /\ file = NULL <=> details.message # NULL

(* A PDF passes if and only if it can be printed and nothing unexpected    *)
(* happens: no check is missing, stricter or looser than it should be, at  *)
(* the page limit, for attachments, or for addresses abroad.               *)
PassesIffPrintable ==
  Done => (Passed <=>
    /\ ~accident
    /\ Printable(UploadedDoc, upload.is_an_attachment,
                 upload.allow_international_letters))

(* Nobody reads a stream from where somebody else left it: Ghostscript and *)
(* the caller get the whole file, whatever pypdf does with the position    *)
(* ("put things back as we found them").                                   *)
NothingCutOff == file_data.pdf.whole /\ (file # NULL => file.whole)

(* What passes is ready: its fonts are embedded, none of its images is in  *)
(* RGB, a letter has Notify's address block and a tag on its first page,   *)
(* and an attachment, which never starts a letter, has neither.            *)
PassedIsReady ==
  Passed =>
    /\ ~file.unembedded
    /\ "RGB" \notin file.images
    /\ file.addressed <=> ~upload.is_an_attachment
    /\ IF upload.is_an_attachment THEN ~file.tag_added
       ELSE file.tag_added <=> UploadedDoc.pages[1].box # <<"NOTIFY">>

(* Images always end in CMYK, but RGB drawings have one way past the       *)
(* conversion: images that were in CMYK, and in nothing else, already.     *)
(* Then a letter keeps Notify's own address in RGB, and a PDF of either    *)
(* kind what was drawn in it; otherwise nothing but the tag is in RGB,     *)
(* which is added after the conversion (normalise_fonts_and_colours).      *)
RGBIsExplained ==
  Passed =>
    /\ file.images = InCMYK(upload.pdf.images)
    /\ "RGB" \in file.drawn <=>
         \/ file.tag_added
         \/ /\ upload.pdf.images = {"CMYK"}
            /\ ~upload.is_an_attachment \/ "RGB" \in upload.pdf.drawn

-----------------------------------------------------------------------------
(* What the comments and the documentation say and the code does not do.   *)

(* rewrite_pdf: "Only add it if it's not already there".                   *)
TagOnlyAddedWhenAbsent ==
  Passed /\ file.tag_added =>
    "NOTIFY" \notin SeqElements(UploadedDoc.pages[1].box)

(* generate_templated_pdf: "Letter attachments are passed through          *)
(* /precompiled/sanitise endpoint, so already in CMYK."                    *)
AttachmentsAreInCMYK ==
  Passed /\ upload.is_an_attachment =>
    "RGB" \notin file.images \cup file.drawn

=============================================================================
