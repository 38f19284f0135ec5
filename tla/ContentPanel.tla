---------------------------- MODULE ContentPanel -----------------------------
(***************************************************************************)
(* The upload panel (ui/src/Content.tsx), Upload of ui/src/api/upload.ts   *)
(* and the two decoders of ui/src/tools.  Which tab is open is left out:   *)
(* it decides only which of the two uploads the button starts, and can be  *)
(* changed at any time.                                                    *)
(***************************************************************************)
EXTENDS App

CONSTANTS
    Files, Texts,   \* what can be added to the list, or typed into the box
    Broken,         \* files whose decoding throws or never ends
    NoText          \* the empty box

ASSUME ContentAssumption ==
    /\ Files \subseteq Docs
    /\ Texts \subseteq Docs
    /\ Broken \subseteq Files
    /\ Files \intersect Texts = {}
    /\ NoText \notin Docs

VARIABLES
    uploadedFiles, directText, uploading,
    jobs,           \* calls of handleProcessFiles that decode their files
    uploads,        \* uploads sent and not executed
    used,           \* history: files added, texts typed
    discarded,      \* history: files the user took off the list
    late,           \* history: files added while others were decoded
    sent            \* history: how many uploads have carried a document

contentPanel == <<uploadedFiles, directText, uploading, jobs, uploads, used,
                  discarded, late, sent>>

Carry(docs) == [d \in Docs |-> IF d \in docs THEN sent[d] + 1 ELSE sent[d]]

\* (mutant) the file replaces those chosen before
OnlyFile(f) == {f}

WithFile(f) == uploadedFiles \union {f}

\* handleDrop and handleFileChange; several files at once are several steps.
AddFile(f) ==
    /\ f \notin used
    /\ uploadedFiles' = WithFile(f)
    /\ used' = used \union {f}
    /\ late' = IF uploading THEN late \union {f} ELSE late
    /\ UNCHANGED <<app, server, directText, uploading, jobs, uploads, discarded,
                   sent>>

handleRemoveFile(f) ==
    /\ f \in uploadedFiles
    /\ uploadedFiles' = uploadedFiles \ {f}
    /\ discarded' = discarded \union {f}
    /\ UNCHANGED <<app, server, directText, uploading, jobs, uploads, used, late,
                   sent>>

TypeText(t) ==
    /\ t \notin used
    /\ t # directText
    /\ directText' = t
    /\ used' = used \union ({t} \ {NoText})
    /\ UNCHANGED <<app, server, uploadedFiles, uploading, jobs, uploads,
                   discarded, late, sent>>

\* (mutant) the button can be pressed while files are decoded
AlwaysEnabled == TRUE

UploadEnabled == ~uploading

\* handleProcessFiles with a text: sent and cleared in one go, and the spinner
\* stopped before it is drawn.
ProcessText ==
    /\ UploadEnabled
    /\ directText # NoText
    /\ uploads' = uploads \union {[docs |-> {directText}, category |-> category]}
    /\ sent' = Carry({directText})
    /\ directText' = NoText
    /\ uploading' = FALSE
    /\ UNCHANGED <<app, server, uploadedFiles, jobs, used, discarded, late>>

\* handleProcessFiles with files, up to its first await.  Files, owner and
\* category are those of the render the button belonged to.
ProcessFiles ==
    /\ UploadEnabled
    /\ uploadedFiles # {}
    /\ uploading' = TRUE
    /\ jobs' = jobs \union {[no       |-> Cardinality(jobs) + 1,
                             files    |-> uploadedFiles,
                             category |-> category]}
    /\ UNCHANGED <<app, server, uploadedFiles, directText, uploads, used,
                   discarded, late, sent>>

\* (mutant) the spinner is left turning
StillUploading == uploading

UploadingAfter == FALSE

\* decodePdf and decodeDocx resolve for a file unless something in it throws.
Decoded(files) == files \intersect Broken = {}

\* The rest of it, when every file is decoded: the list is cleared whatever is
\* on it by now.  A decoder that fails leaves the promise open, or rejects it:
\* nothing after the await happens then, setUploading(false) included.
FinishJob(j) ==
    /\ Decoded(j.files)
    /\ jobs' = jobs \ {j}
    /\ uploads' = uploads \union {[docs |-> j.files, category |-> j.category]}
    /\ sent' = Carry(j.files)
    /\ uploadedFiles' = {}
    /\ uploading' = UploadingAfter
    /\ UNCHANGED <<app, server, directText, used, discarded, late>>

UploadReaches(u) ==
    /\ uploads' = uploads \ {u}
    /\ ServeUpload(u.docs, u.category)
    /\ UNCHANGED <<app, uploadedFiles, directText, uploading, jobs, used,
                   discarded, late, sent>>

\* Upload catches the failure and logs it; text and files are gone.
UploadFails(u) ==
    /\ uploads' = uploads \ {u}
    /\ UNCHANGED <<app, server, uploadedFiles, directText, uploading, jobs, used,
                   discarded, late, sent>>

ContentPanelInit ==
    /\ uploadedFiles = {}
    /\ directText = NoText
    /\ uploading = FALSE
    /\ jobs = {}
    /\ uploads = {}
    /\ used = {}
    /\ discarded = {}
    /\ late = {}
    /\ sent = [d \in Docs |-> 0]

ContentUser ==
    \/ \E f \in Files : AddFile(f) \/ handleRemoveFile(f)
    \/ \E t \in Texts \union {NoText} : TypeText(t)
    \/ ProcessText
    \/ ProcessFiles

ContentNetwork ==
    \/ \E j \in jobs : FinishJob(j)
    \/ \E u \in uploads : UploadReaches(u) \/ UploadFails(u)
=============================================================================
