------------------------------- MODULE Caches -------------------------------
(* What the service and its workers keep so as not to compute it again, and  *)
(* the files they write next to one another: answers of language models,     *)
(* parsed PDF files, recomputed numeric differences, reports, uploads.       *)
(*                                                                           *)
(* Each of Callers is a thread or a process at work on one of these, for one *)
(* key: one prompt, one PDF file, one job.  A file that is written in place  *)
(* is "half" between open and close; whoever dies in between leaves it so.   *)
EXTENDS Naturals, FiniteSets

CONSTANTS Callers,
          None,
          Attempts,    \* stop_after_attempt
          Keyed,       \* callers whose provider has an API key that is no placeholder
          InJob,       \* callers for whom _current_job_id is set: those of a worker
          MaxBlank     \* bound: empty answers of the model

ASSUME CachesAssumption ==
  /\ Attempts \in Nat \ {0} /\ MaxBlank \in Nat
  /\ Keyed \subseteq Callers /\ InJob \subseteq Callers /\ None \notin Callers

VARIABLES
  at,         \* what each caller does, where it stands: <<kind, place>>
  got,        \* what each caller came back with, or carries along
  tries,      \* calls of the model in this attempt of the caller
  answer,     \* the file of the answer: "none", "half", "text", "blank"
  blanks,     \* how often the model answered with nothing
  told,       \* callers whose failure is in _llm_failures
  parsed,     \* the file of the parse: "none", "half", "whole"
  numeric,    \* _NUMERIC_DIFF_CACHE: has the job's differences
  lock,       \* the holder of the job's numeric lock
  computed,   \* callers that computed them since the process started
  version,    \* what the job's report should say: "old", then "new"
  report,     \* what report.xlsx says, or "half"
  uploads     \* the two files of each caller's upload

vars == <<at, got, tries, answer, blanks, told, parsed, numeric, lock, computed,
          version, report, uploads>>
llmVars    == <<tries, answer, blanks, told>>
numVars    == <<numeric, lock, computed>>
reportVars == <<version, report>>

Files   == {"a", "h"}
NoFiles == [f \in Files |-> "none"]
Go(c, kind, place)  == at' = [at EXCEPT ![c] = <<kind, place>>]
Return(c, value)    == /\ at' = [at EXCEPT ![c] = <<at[c][1], "over">>]
                       /\ got' = [got EXCEPT ![c] = value]

-----------------------------------------------------------------------------
(* A failed call comes back with nothing, and is recorded for the job it     *)
(* belongs to.  Only Orchestrator.run sets one: the service, which recomputes *)
(* numeric differences without a job, records its failures nowhere.          *)
Recorded(c) == told \union ({c} \cap InJob)

(* cached_call: a file that exists is read, whole or not ...                 *)
Ask(c) ==
  /\ at[c] = <<"idle", "idle">>
  /\ IF answer # "none" THEN Go(c, "llm", "read") /\ UNCHANGED <<got, told>>
     ELSE IF c \in Keyed THEN Go(c, "llm", "call") /\ UNCHANGED <<got, told>>
     ELSE /\ at' = [at EXCEPT ![c] = <<"llm", "over">>]
          /\ got' = [got EXCEPT ![c] = "blank"] /\ told' = Recorded(c)
  /\ UNCHANGED <<tries, answer, blanks, parsed, numVars, reportVars, uploads>>

(* ... and half an answer is not JSON: the call raises.                      *)
ReadAnswer(c) ==
  /\ at[c] = <<"llm", "read">>
  /\ Return(c, IF answer = "half" THEN "raised" ELSE answer)
  /\ UNCHANGED <<llmVars, parsed, numVars, reportVars, uploads>>

(* One attempt: an answer, an empty answer ({}), an error that is retried up *)
(* to Attempts times, or one that is not.                                    *)
CallAnswers(c) ==
  /\ at[c] = <<"llm", "call">>
  /\ \/ got' = [got EXCEPT ![c] = "text"] /\ UNCHANGED blanks
     \/ /\ blanks < MaxBlank /\ blanks' = blanks + 1
        /\ got' = [got EXCEPT ![c] = "blank"]
  /\ Go(c, "llm", "open")
  /\ UNCHANGED <<tries, answer, told, parsed, numVars, reportVars, uploads>>

CallRetries(c) ==
  /\ at[c] = <<"llm", "call">> /\ tries[c] + 1 < Attempts
  /\ tries' = [tries EXCEPT ![c] = @ + 1]
  /\ UNCHANGED <<at, got, answer, blanks, told, parsed, numVars, reportVars, uploads>>

CallFailsIntoCache(c) ==               \* Mutant: what is returned is also stored.
  /\ at[c] = <<"llm", "call">>
  /\ told' = Recorded(c)
  /\ got' = [got EXCEPT ![c] = "blank"] /\ Go(c, "llm", "open")
  /\ UNCHANGED <<tries, answer, blanks, parsed, numVars, reportVars, uploads>>

CallFails(c) ==
  /\ at[c] = <<"llm", "call">>
  /\ told' = Recorded(c)
  /\ Return(c, "blank")
  /\ UNCHANGED <<tries, answer, blanks, parsed, numVars, reportVars, uploads>>

(* write_text truncates the file, then fills it; when it raises, so does the *)
(* call, and the half stays.                                                 *)
OpenAnswer(c) ==
  /\ at[c] = <<"llm", "open">>
  /\ answer' = "half" /\ Go(c, "llm", "fill")
  /\ UNCHANGED <<got, tries, blanks, told, parsed, numVars, reportVars, uploads>>

FillAnswer(c) ==
  /\ at[c] = <<"llm", "fill">>
  /\ \/ answer' = got[c] /\ Return(c, got[c])
     \/ Return(c, "raised") /\ UNCHANGED answer
  /\ UNCHANGED <<tries, blanks, told, parsed, numVars, reportVars, uploads>>

-----------------------------------------------------------------------------
(* parse_h_pdf: a cache file that cannot be read is no cache file.           *)
LoadParseTrusting(c) ==                \* Mutant: what exists is loaded.
  /\ at[c] = <<"idle", "idle">>
  /\ IF parsed = "none" THEN Go(c, "pdf", "open") /\ UNCHANGED got
     ELSE at' = [at EXCEPT ![c] = <<"pdf", "over">>] /\ got' = [got EXCEPT ![c] = parsed]
  /\ UNCHANGED <<llmVars, parsed, numVars, reportVars, uploads>>

LoadParse(c) ==
  /\ at[c] = <<"idle", "idle">>
  /\ IF parsed # "whole" THEN Go(c, "pdf", "open") /\ UNCHANGED got
     ELSE at' = [at EXCEPT ![c] = <<"pdf", "over">>] /\ got' = [got EXCEPT ![c] = parsed]
  /\ UNCHANGED <<llmVars, parsed, numVars, reportVars, uploads>>

(* The file is parsed and written in place; the caller keeps its own parse,  *)
(* also when writing fails.                                                  *)
OpenParse(c) ==
  /\ at[c] = <<"pdf", "open">>
  /\ parsed' = "half" /\ Go(c, "pdf", "fill")
  /\ UNCHANGED <<got, llmVars, numVars, reportVars, uploads>>

FillParse(c) ==
  /\ at[c] = <<"pdf", "fill">>
  /\ parsed' \in {"whole", "half"} /\ Return(c, "whole")
  /\ UNCHANGED <<llmVars, numVars, reportVars, uploads>>

-----------------------------------------------------------------------------
(* _load_current_numeric_diffs: cache, lock, cache again, computation.       *)
LookNumeric(c) ==
  /\ at[c] = <<"idle", "idle">>
  /\ IF numeric THEN at' = [at EXCEPT ![c] = <<"num", "over">>] /\ got' = [got EXCEPT ![c] = "diffs"]
     ELSE Go(c, "num", "lock") /\ UNCHANGED got
  /\ UNCHANGED <<llmVars, parsed, numVars, reportVars, uploads>>

LockNumericOnly(c) ==                  \* Mutant: no second look.
  /\ at[c] = <<"num", "lock">> /\ lock = None
  /\ lock' = c /\ computed' = computed \union {c} /\ Go(c, "num", "compute")
  /\ UNCHANGED <<got, llmVars, parsed, numeric, reportVars, uploads>>

LockNumeric(c) ==
  /\ at[c] = <<"num", "lock">> /\ lock = None
  /\ IF numeric THEN Return(c, "diffs") /\ UNCHANGED <<lock, computed>>
     ELSE /\ lock' = c /\ computed' = computed \union {c}
          /\ Go(c, "num", "compute") /\ UNCHANGED got
  /\ UNCHANGED <<llmVars, parsed, numeric, reportVars, uploads>>

(* A computation that raises leaves the cache empty and frees the lock.      *)
ComputeNumeric(c) ==
  /\ at[c] = <<"num", "compute">>
  /\ lock' = None
  /\ \/ numeric' = TRUE /\ Return(c, "diffs") /\ UNCHANGED computed
     \/ computed' = computed \ {c} /\ Return(c, "raised") /\ UNCHANGED numeric
  /\ UNCHANGED <<llmVars, parsed, reportVars, uploads>>

-----------------------------------------------------------------------------
(* _regenerate_report: the job is loaded, exported to a file of its own, and *)
(* that file renamed over the report, which is then streamed.                *)
LoadJob(c) ==
  /\ at[c] = <<"idle", "idle">>
  /\ got' = [got EXCEPT ![c] = version] /\ Go(c, "report", "export")
  /\ UNCHANGED <<llmVars, parsed, numVars, reportVars, uploads>>

ExportFails(c) ==
  /\ at[c] = <<"report", "export">>
  /\ Return(c, "raised")
  /\ UNCHANGED <<llmVars, parsed, numVars, reportVars, uploads>>

ReplaceInPlace(c) ==                   \* Mutant: copyfile over the report.
  /\ at[c] \in {<<"report", "export">>, <<"report", "copy">>}
  /\ IF at[c][2] = "export" THEN report' = "half" /\ Go(c, "report", "copy")
                            ELSE report' = got[c] /\ Go(c, "report", "stream")
  /\ UNCHANGED <<got, llmVars, parsed, numVars, version, uploads>>

Replace(c) ==
  /\ at[c] = <<"report", "export">>
  /\ report' = got[c] /\ Go(c, "report", "stream")
  /\ UNCHANGED <<got, llmVars, parsed, numVars, version, uploads>>

Stream(c) ==
  /\ at[c] = <<"report", "stream">>
  /\ Return(c, report)
  /\ UNCHANGED <<llmVars, parsed, numVars, reportVars, uploads>>

(* A review or a repair changes what the report should say.                  *)
ChangeJob ==
  /\ version = "old" /\ version' = "new"
  /\ UNCHANGED <<at, got, llmVars, parsed, numVars, report, uploads>>

-----------------------------------------------------------------------------
(* create_job saves file a, then file h.                                     *)
StartUpload(c) ==
  /\ at[c] = <<"idle", "idle">>
  /\ Go(c, "upload", "a")
  /\ UNCHANGED <<got, llmVars, parsed, numVars, reportVars, uploads>>

(* The first chunk has to look like a PDF file and to fit: else 415 or 413.  *)
OpenUpload(c) ==
  /\ at[c][1] = "upload" /\ at[c][2] \in Files /\ uploads[c][at[c][2]] = "none"
  /\ uploads' = [uploads EXCEPT ![c][at[c][2]] = "half"]
  /\ UNCHANGED <<at, got, llmVars, parsed, numVars, reportVars>>

FillUpload(c) ==
  /\ at[c][1] = "upload" /\ at[c][2] \in Files /\ uploads[c][at[c][2]] = "half"
  /\ uploads' = [uploads EXCEPT ![c][at[c][2]] = "whole"]
  /\ IF at[c][2] = "a" THEN Go(c, "upload", "h") /\ UNCHANGED got ELSE Return(c, "job")
  /\ UNCHANGED <<llmVars, parsed, numVars, reportVars>>

(* Refused, at the first chunk or when it grows too large: both files go.    *)
RefuseUpload(c) ==
  /\ at[c][1] = "upload" /\ at[c][2] \in Files
  /\ uploads' = [uploads EXCEPT ![c] = NoFiles]
  /\ Return(c, "refused")
  /\ UNCHANGED <<llmVars, parsed, numVars, reportVars>>

(* Any other error removes the file being written only; a request that is    *)
(* cancelled removes nothing.                                                *)
UploadBreaks(c) ==
  /\ at[c][1] = "upload" /\ at[c][2] \in Files
  /\ \/ uploads' = [uploads EXCEPT ![c][at[c][2]] = "none"]
     \/ UNCHANGED uploads
  /\ Return(c, "raised")
  /\ UNCHANGED <<llmVars, parsed, numVars, reportVars>>

-----------------------------------------------------------------------------
(* A caller that is through, or killed wherever it stands, starts again; a   *)
(* report, a lock and the numeric cache live in the service, whose threads   *)
(* are killed together by Restart.                                           *)
Again(c) ==
  /\ \/ at[c][2] = "over"
     \/ at[c][1] \in {"llm", "pdf"} /\ at[c][2] # "idle"
  /\ at' = [at EXCEPT ![c] = <<"idle", "idle">>]
  /\ got' = [got EXCEPT ![c] = None] /\ tries' = [tries EXCEPT ![c] = 0]
  /\ told' = told \ {c} /\ uploads' = [uploads EXCEPT ![c] = NoFiles]
  /\ UNCHANGED <<answer, blanks, parsed, numVars, reportVars>>

Restart ==
  /\ \E c \in Callers : at[c][1] \in {"num", "report", "upload"}
  /\ at' = [c \in Callers |-> <<"idle", "idle">>]
  /\ got' = [c \in Callers |-> None] /\ tries' = [c \in Callers |-> 0]
  /\ told' = {} /\ uploads' = [c \in Callers |-> NoFiles]
  /\ numeric' = FALSE /\ lock' = None /\ computed' = {}
  /\ UNCHANGED <<answer, blanks, parsed, reportVars>>

Init ==
  /\ at = [c \in Callers |-> <<"idle", "idle">>]
  /\ got = [c \in Callers |-> None]
  /\ tries = [c \in Callers |-> 0]
  /\ answer = "none" /\ blanks = 0 /\ told = {} /\ parsed = "none"
  /\ numeric = FALSE /\ lock = None /\ computed = {}
  /\ version = "old" /\ report = "old"
  /\ uploads = [c \in Callers |-> NoFiles]

Next ==
  \/ \E c \in Callers :
       \/ Ask(c) \/ ReadAnswer(c) \/ CallAnswers(c) \/ CallRetries(c) \/ CallFails(c)
       \/ OpenAnswer(c) \/ FillAnswer(c)
       \/ LoadParse(c) \/ OpenParse(c) \/ FillParse(c)
       \/ LookNumeric(c) \/ LockNumeric(c) \/ ComputeNumeric(c)
       \/ LoadJob(c) \/ ExportFails(c) \/ Replace(c) \/ Stream(c)
       \/ StartUpload(c) \/ OpenUpload(c) \/ FillUpload(c) \/ RefuseUpload(c) \/ UploadBreaks(c)
       \/ Again(c)
  \/ ChangeJob \/ Restart

Spec == Init /\ [][Next]_vars

-----------------------------------------------------------------------------
Over(c, kind) == at[c] = <<kind, "over">>

Kinds  == {"idle", "llm", "pdf", "num", "report", "upload"}
Places == {"idle", "read", "call", "open", "fill", "lock", "compute", "export", "stream",
           "over"} \union Files
Values == {None, "text", "blank", "raised", "whole", "diffs", "old", "new", "job", "refused"}

(* Every variable has its type.                                              *)
TypeOK ==
  /\ answer \in {"none", "half", "text", "blank"} /\ parsed \in {"none", "half", "whole"}
  /\ told \subseteq Callers /\ computed \subseteq Callers
  /\ at \in [Callers -> Kinds \X Places] /\ got \in [Callers -> Values]
  /\ tries \in [Callers -> 0 .. Attempts] /\ blanks \in 0 .. MaxBlank
  /\ numeric \in BOOLEAN /\ lock \in Callers \union {None}
  /\ version \in {"old", "new"} /\ report \in {"old", "new", "half"}
  /\ uploads \in [Callers -> [Files -> {"none", "half", "whole"}]]

(* A failed call is never kept as the answer others would read without a     *)
(* word: a stored blank was answered by the model.  So a caller of a job who *)
(* comes back with nothing has its failure on record, or the model did       *)
(* answer so.  Of a caller outside a job nothing more is promised: its       *)
(* failure is on no record, and only what it leaves behind is right.         *)
FailuresAreTold ==
  /\ answer = "blank" => blanks > 0
  /\ \A c \in InJob : Over(c, "llm") /\ got[c] = "blank" => c \in told \/ blanks > 0

(* However many requests ask at once, one at a time computes the numeric     *)
(* differences of a job, and nobody again once they are there.               *)
NumericOnce ==
  /\ Cardinality(computed) <= 1
  /\ numeric => lock = None

(* Nobody works with half a file: a parse that was cut short is done again,  *)
(* a download streams a whole report, a job has both its uploads, and a      *)
(* refused request leaves none.                                              *)
NothingHalf ==
  \A c \in Callers :
    /\ Over(c, "pdf") => got[c] = "whole"
    /\ Over(c, "report") => got[c] # "half"
    /\ Over(c, "upload") /\ got[c] = "job" => uploads[c] = [f \in Files |-> "whole"]
    /\ Over(c, "upload") /\ got[c] = "refused" => uploads[c] = NoFiles
=============================================================================
