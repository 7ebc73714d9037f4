------------------------------ MODULE Caches_proofs ------------------------------
(* Theorems about Caches, for every set of callers, with and without a key,   *)
(* inside and outside a job, and every number of attempts.                    *)
EXTENDS Caches, FiniteSetTheorems, TLAPS

At(c, kind, place) == at[c][1] = kind /\ at[c][2] = place

(* What a caller holds at each place.                                         *)
Carries(c) ==
  /\ At(c, "llm", "read") => answer # "none"
  /\ At(c, "llm", "open") \/ At(c, "llm", "fill") =>
       got[c] \in {"text", "blank"} /\ (got[c] = "blank" => blanks > 0)
  /\ At(c, "llm", "over") /\ got[c] = "blank" /\ c \in InJob => c \in told \/ blanks > 0
  /\ At(c, "pdf", "over") => got[c] = "whole"
  /\ At(c, "report", "export") \/ At(c, "report", "stream") => got[c] \in {"old", "new"}
  /\ At(c, "report", "over") => got[c] # "half"
  /\ At(c, "num", "compute") => lock = c
  /\ At(c, "upload", "h") => uploads[c]["a"] = "whole"
  /\ At(c, "upload", "over") /\ got[c] = "job" => \A f \in Files : uploads[c][f] = "whole"
  /\ At(c, "upload", "over") /\ got[c] = "refused" => uploads[c] = NoFiles

(* What the files and the numeric cache say: a blank answer was answered, a   *)
(* report is whole, and the one who computes holds the lock.                  *)
Shared ==
  /\ answer = "blank" => blanks > 0
  /\ report # "half"
  /\ lock # None => At(lock, "num", "compute") /\ ~numeric /\ computed = {lock}
  /\ lock = None /\ ~numeric => computed = {}
  /\ \A c, d \in computed : c = d

IInv == TypeOK /\ Shared /\ \A c \in Callers : Carries(c)

-----------------------------------------------------------------------------
LEMMA InvInit == Init => IInv
PROOF
  <1> SUFFICES ASSUME Init PROVE IInv
    OBVIOUS
  <1> USE CachesAssumption DEF CachesAssumption, Init
  <1>1. at \in [Callers -> Kinds \X Places]
    BY DEF Kinds, Places
  <1>2. uploads \in [Callers -> [Files -> {"none", "half", "whole"}]]
    BY DEF NoFiles, Files
  <1>3. got \in [Callers -> Values] /\ tries \in [Callers -> 0 .. Attempts]
    BY DEF Values
  <1>4. blanks \in 0 .. MaxBlank /\ lock \in Callers \union {None}
    OBVIOUS
  <1>5. TypeOK
    BY <1>1, <1>2, <1>3, <1>4 DEF TypeOK
  <1>6. Shared
    BY DEF Shared
  <1>7. \A c \in Callers : Carries(c)
    BY DEF Carries, At
  <1> QED BY <1>5, <1>6, <1>7 DEF IInv

(* A step of one caller that is not about the numeric differences keeps what  *)
(* is said of the others and of what they share.                              *)
LEMMA OneMoves ==
  ASSUME IInv, NEW c \in Callers, TypeOK', Carries(c)',
         ~At(c, "num", "compute"),
         \A d \in Callers \ {c} : at'[d] = at[d] /\ got'[d] = got[d] /\ uploads'[d] = uploads[d],
         answer # "none" => answer' # "none",
         told \ {c} \subseteq told', UNCHANGED numVars, blanks' >= blanks,
         answer' = "blank" => blanks' > 0, report' # "half"
  PROVE  IInv'
PROOF
  <1> USE DEF IInv, numVars
  <1>1. blanks > 0 => blanks' > 0
    BY DEF TypeOK
  <1>2. \A d \in Callers \ {c} : Carries(d)'
    BY <1>1 DEF Carries, At
  <1>3. Shared'
    BY DEF TypeOK, Shared, At
  <1> QED BY <1>2, <1>3

(* cached_call.                                                               *)
LEMMA InvAnswers ==
  ASSUME IInv, NEW c \in Callers,
         Ask(c) \/ ReadAnswer(c) \/ CallAnswers(c) \/ CallRetries(c) \/ CallFails(c) \/ OpenAnswer(c) \/ FillAnswer(c)
  PROVE  IInv'
PROOF
  <1> USE CachesAssumption DEF CachesAssumption, IInv, llmVars, numVars, reportVars
  <1>1. ASSUME Ask(c) PROVE IInv'
    <2>1. /\ at[c] = <<"idle", "idle">> /\ UNCHANGED <<answer, blanks, tries, parsed, numVars, reportVars, uploads>>
          /\ \/ answer # "none" /\ at' = [at EXCEPT ![c] = <<"llm", "read">>] /\ UNCHANGED <<got, told>>
             \/ at' = [at EXCEPT ![c] = <<"llm", "call">>] /\ UNCHANGED <<got, told>>
             \/ at' = [at EXCEPT ![c] = <<"llm", "over">>] /\ got' = [got EXCEPT ![c] = "blank"]
                /\ told' = Recorded(c)
      BY <1>1 DEF Ask, Go, Return, TypeOK
    <2> USE <2>1 DEF Recorded
    <2>2. at' \in [Callers -> Kinds \X Places]
      BY DEF TypeOK, Kinds, Places
    <2>3. got' \in [Callers -> Values]
      BY DEF TypeOK, Values
    <2>4. uploads' \in [Callers -> [Files -> {"none", "half", "whole"}]]
      BY DEF TypeOK
    <2>5. TypeOK'
      BY <2>2, <2>3, <2>4 DEF TypeOK, Values, Carries, At
    <2>6. /\ At(c, "idle", "idle")
          /\ \/ At(c, "llm", "read")' \/ At(c, "llm", "call")'
             \/ At(c, "llm", "over")' /\ (c \in InJob => c \in told')
      BY DEF TypeOK, At
    <2>7. Carries(c)'
      BY <2>6 DEF TypeOK, Carries, Shared, At
    <2>8. /\ \A d \in Callers \ {c} :
               at'[d] = at[d] /\ got'[d] = got[d] /\ uploads'[d] = uploads[d]
          /\ told \ {c} \subseteq told'
      BY DEF TypeOK
    <2>9. blanks' >= blanks /\ UNCHANGED <<answer, report, numVars>> /\ ~At(c, "num", "compute")
      BY <2>6 DEF TypeOK, At
    <2> QED BY <2>5, <2>7, <2>8, <2>9, OneMoves DEF Shared
  <1>2. ASSUME ReadAnswer(c) PROVE IInv'
    <2>1. at[c] = <<"llm", "read">> /\ at[c][1] = "llm" /\ answer # "none"
      BY <1>2 DEF ReadAnswer, Carries, At
    <2>2. /\ at[c] = <<"llm", "read">> /\ at' = [at EXCEPT ![c] = <<"llm", "over">>]
          /\ UNCHANGED <<llmVars, parsed, numVars, reportVars, uploads>>
          /\ \/ got' = [got EXCEPT ![c] = "raised"]
             \/ answer \in {"text", "blank"} /\ got' = [got EXCEPT ![c] = answer]
      BY <1>2, <2>1 DEF ReadAnswer, Go, Return, TypeOK
    <2> USE <2>2
    <2>3. at' \in [Callers -> Kinds \X Places]
      BY DEF TypeOK, Kinds, Places
    <2>4. got' \in [Callers -> Values]
      BY DEF TypeOK, Values
    <2>5. uploads' \in [Callers -> [Files -> {"none", "half", "whole"}]]
      BY DEF TypeOK
    <2>6. TypeOK'
      BY <2>3, <2>4, <2>5 DEF TypeOK, Values, Carries, At
    <2>7. /\ At(c, "llm", "read")
          /\ At(c, "llm", "over")' /\ (got'[c] = "blank" => blanks > 0)
      BY DEF TypeOK, At, Shared
    <2>8. Carries(c)'
      BY <2>7 DEF TypeOK, Carries, Shared, At
    <2>9. /\ \A d \in Callers \ {c} :
               at'[d] = at[d] /\ got'[d] = got[d] /\ uploads'[d] = uploads[d]
          /\ told \ {c} \subseteq told'
      BY DEF TypeOK
    <2>10. blanks' >= blanks /\ UNCHANGED <<answer, report, numVars>> /\ ~At(c, "num", "compute")
      BY <2>7 DEF TypeOK, At
    <2> QED BY <2>6, <2>8, <2>9, <2>10, OneMoves DEF Shared
  <1>3. ASSUME CallAnswers(c) PROVE IInv'
    <2> USE <1>3 DEF CallAnswers, Go, Return
    <2>1. at' \in [Callers -> Kinds \X Places]
      BY DEF TypeOK, Kinds, Places
    <2>2. got' \in [Callers -> Values]
      BY DEF TypeOK, Values, Shared, Carries, At
    <2>3. uploads' \in [Callers -> [Files -> {"none", "half", "whole"}]]
      BY DEF TypeOK
    <2>4. TypeOK'
      BY <2>1, <2>2, <2>3 DEF TypeOK, Values, Carries, At
    <2>5. /\ At(c, "llm", "call")
          /\ At(c, "llm", "open")' /\ got'[c] \in {"text", "blank"} /\ (got'[c] = "blank" => blanks' > 0)
      BY DEF TypeOK, At
    <2>6. Carries(c)'
      BY <2>5 DEF TypeOK, Carries, Shared, At
    <2> QED BY <2>4, <2>5, <2>6, OneMoves DEF TypeOK, Carries, Shared, At
  <1>4. ASSUME CallRetries(c) PROVE IInv'
    <2> USE <1>4 DEF CallRetries, Go, Return
    <2>1. at' \in [Callers -> Kinds \X Places]
      BY DEF TypeOK, Kinds, Places
    <2>2. got' \in [Callers -> Values]
      BY DEF TypeOK, Values, Shared, Carries, At
    <2>3. uploads' \in [Callers -> [Files -> {"none", "half", "whole"}]]
      BY DEF TypeOK
    <2>4. TypeOK'
      BY <2>1, <2>2, <2>3 DEF TypeOK, Values, Carries, At
    <2>5. /\ At(c, "llm", "call")
          /\ At(c, "llm", "call")'
      BY DEF TypeOK, At
    <2>6. Carries(c)'
      BY <2>5 DEF TypeOK, Carries, Shared, At
    <2> QED BY <2>4, <2>5, <2>6, OneMoves DEF TypeOK, Carries, Shared, At
  <1>5. ASSUME CallFails(c) PROVE IInv'
    <2> USE <1>5 DEF CallFails, Recorded, Go, Return
    <2>1. at' \in [Callers -> Kinds \X Places]
      BY DEF TypeOK, Kinds, Places
    <2>2. got' \in [Callers -> Values]
      BY DEF TypeOK, Values, Shared, Carries, At
    <2>3. uploads' \in [Callers -> [Files -> {"none", "half", "whole"}]]
      BY DEF TypeOK
    <2>4. TypeOK'
      BY <2>1, <2>2, <2>3 DEF TypeOK, Values, Carries, At
    <2>5. /\ At(c, "llm", "call")
          /\ At(c, "llm", "over")' /\ (c \in InJob => c \in told')
      BY DEF TypeOK, At
    <2>6. Carries(c)'
      BY <2>5 DEF TypeOK, Carries, Shared, At
    <2> QED BY <2>4, <2>5, <2>6, OneMoves DEF TypeOK, Carries, Shared, At
  <1>6. ASSUME OpenAnswer(c) PROVE IInv'
    <2> USE <1>6 DEF OpenAnswer, Go, Return
    <2>1. at' \in [Callers -> Kinds \X Places]
      BY DEF TypeOK, Kinds, Places
    <2>2. got' \in [Callers -> Values]
      BY DEF TypeOK, Values, Shared, Carries, At
    <2>3. uploads' \in [Callers -> [Files -> {"none", "half", "whole"}]]
      BY DEF TypeOK
    <2>4. TypeOK'
      BY <2>1, <2>2, <2>3 DEF TypeOK, Values, Carries, At
    <2>5. /\ At(c, "llm", "open")
          /\ At(c, "llm", "fill")' /\ got'[c] = got[c]
      BY DEF TypeOK, At
    <2>6. Carries(c)'
      BY <2>5 DEF TypeOK, Carries, Shared, At
    <2> QED BY <2>4, <2>5, <2>6, OneMoves DEF TypeOK, Carries, Shared, At
  <1>7. ASSUME FillAnswer(c) PROVE IInv'
    <2>1. /\ at[c] = <<"llm", "fill">> /\ at[c][1] = "llm" /\ got[c] \in {"text", "blank"}
          /\ got[c] = "blank" => blanks > 0
      BY <1>7 DEF FillAnswer, Carries, At
    <2>2. /\ at' = [at EXCEPT ![c] = <<"llm", "over">>]
          /\ UNCHANGED <<tries, blanks, told, parsed, numVars, reportVars, uploads>>
          /\ \/ answer' = got[c] /\ got' = [got EXCEPT ![c] = got[c]]
             \/ answer' = answer /\ got' = [got EXCEPT ![c] = "raised"]
      BY <1>7, <2>1 DEF FillAnswer, Return
    <2>3. at' \in [Callers -> Kinds \X Places] /\ got' \in [Callers -> Values]
      BY <2>1, <2>2 DEF TypeOK, Kinds, Places, Values
    <2>4. answer' \in {"none", "half", "text", "blank"}
      BY <2>1, <2>2 DEF TypeOK
    <2>5. TypeOK'
      BY <2>2, <2>3, <2>4 DEF TypeOK
    <2>6. /\ At(c, "llm", "fill") /\ At(c, "llm", "over")'
          /\ got'[c] = "blank" => blanks' > 0
      BY <2>1, <2>2 DEF TypeOK, At
    <2>7. Carries(c)'
      BY <2>6 DEF Carries, At
    <2>8. /\ answer # "none" => answer' # "none"
          /\ answer' = "blank" => blanks' > 0
      BY <2>1, <2>2 DEF Shared
    <2>9. \A d \in Callers \ {c} : at'[d] = at[d] /\ got'[d] = got[d] /\ uploads'[d] = uploads[d]
      BY <2>2 DEF TypeOK
    <2>10. blanks' >= blanks /\ UNCHANGED <<told, report, numVars>> /\ ~At(c, "num", "compute")
      BY <2>2, <2>6 DEF TypeOK, At
    <2> QED BY <2>5, <2>7, <2>8, <2>9, <2>10, OneMoves DEF Shared
  <1> QED BY <1>1, <1>2, <1>3, <1>4, <1>5, <1>6, <1>7

(* The parse cache.                                                           *)
LEMMA InvParse ==
  ASSUME IInv, NEW c \in Callers,
         LoadParse(c) \/ OpenParse(c) \/ FillParse(c)
  PROVE  IInv'
PROOF
  <1> USE CachesAssumption DEF CachesAssumption, IInv, llmVars, numVars, reportVars
  <1>1. ASSUME LoadParse(c) PROVE IInv'
    <2>1. /\ at[c] = <<"idle", "idle">> /\ UNCHANGED <<llmVars, parsed, numVars, reportVars, uploads>>
          /\ \/ at' = [at EXCEPT ![c] = <<"pdf", "open">>] /\ UNCHANGED got
             \/ at' = [at EXCEPT ![c] = <<"pdf", "over">>] /\ got' = [got EXCEPT ![c] = "whole"]
      BY <1>1 DEF LoadParse, Go, Return, TypeOK
    <2> USE <2>1
    <2>2. at' \in [Callers -> Kinds \X Places]
      BY DEF TypeOK, Kinds, Places
    <2>3. got' \in [Callers -> Values]
      BY DEF TypeOK, Values
    <2>4. uploads' \in [Callers -> [Files -> {"none", "half", "whole"}]]
      BY DEF TypeOK
    <2>5. TypeOK'
      BY <2>2, <2>3, <2>4 DEF TypeOK, Values, Carries, At
    <2>6. /\ At(c, "idle", "idle")
          /\ \/ At(c, "pdf", "open")'
             \/ At(c, "pdf", "over")' /\ got'[c] = "whole"
      BY DEF TypeOK, At
    <2>7. Carries(c)'
      BY <2>6 DEF TypeOK, Carries, Shared, At
    <2>8. /\ \A d \in Callers \ {c} :
               at'[d] = at[d] /\ got'[d] = got[d] /\ uploads'[d] = uploads[d]
          /\ told \ {c} \subseteq told'
      BY DEF TypeOK
    <2>9. blanks' >= blanks /\ UNCHANGED <<answer, report, numVars>> /\ ~At(c, "num", "compute")
      BY <2>6 DEF TypeOK, At
    <2> QED BY <2>5, <2>7, <2>8, <2>9, OneMoves DEF Shared
  <1>2. ASSUME OpenParse(c) PROVE IInv'
    <2> USE <1>2 DEF OpenParse, Go, Return
    <2>1. at' \in [Callers -> Kinds \X Places]
      BY DEF TypeOK, Kinds, Places
    <2>2. got' \in [Callers -> Values]
      BY DEF TypeOK, Values, Shared, Carries, At
    <2>3. uploads' \in [Callers -> [Files -> {"none", "half", "whole"}]]
      BY DEF TypeOK
    <2>4. TypeOK'
      BY <2>1, <2>2, <2>3 DEF TypeOK, Values, Carries, At
    <2>5. /\ At(c, "pdf", "open")
          /\ At(c, "pdf", "fill")'
      BY DEF TypeOK, At
    <2>6. Carries(c)'
      BY <2>5 DEF TypeOK, Carries, Shared, At
    <2> QED BY <2>4, <2>5, <2>6, OneMoves DEF TypeOK, Carries, Shared, At
  <1>3. ASSUME FillParse(c) PROVE IInv'
    <2> USE <1>3 DEF FillParse, Go, Return
    <2>1. at' \in [Callers -> Kinds \X Places]
      BY DEF TypeOK, Kinds, Places
    <2>2. got' \in [Callers -> Values]
      BY DEF TypeOK, Values, Shared, Carries, At
    <2>3. uploads' \in [Callers -> [Files -> {"none", "half", "whole"}]]
      BY DEF TypeOK
    <2>4. TypeOK'
      BY <2>1, <2>2, <2>3 DEF TypeOK, Values, Carries, At
    <2>5. /\ At(c, "pdf", "fill")
          /\ At(c, "pdf", "over")' /\ got'[c] = "whole"
      BY DEF TypeOK, At
    <2>6. Carries(c)'
      BY <2>5 DEF TypeOK, Carries, Shared, At
    <2> QED BY <2>4, <2>5, <2>6, OneMoves DEF TypeOK, Carries, Shared, At
  <1> QED BY <1>1, <1>2, <1>3

(* The report.                                                                *)
LEMMA InvReport ==
  ASSUME IInv, NEW c \in Callers,
         LoadJob(c) \/ ExportFails(c) \/ Replace(c) \/ Stream(c)
  PROVE  IInv'
PROOF
  <1> USE CachesAssumption DEF CachesAssumption, IInv, llmVars, numVars, reportVars
  <1>1. ASSUME LoadJob(c) PROVE IInv'
    <2> USE <1>1 DEF LoadJob, Go, Return
    <2>1. at' \in [Callers -> Kinds \X Places]
      BY DEF TypeOK, Kinds, Places
    <2>2. got' \in [Callers -> Values]
      BY DEF TypeOK, Values, Shared, Carries, At
    <2>3. uploads' \in [Callers -> [Files -> {"none", "half", "whole"}]]
      BY DEF TypeOK
    <2>4. TypeOK'
      BY <2>1, <2>2, <2>3 DEF TypeOK, Values, Carries, At
    <2>5. /\ At(c, "idle", "idle")
          /\ At(c, "report", "export")' /\ got'[c] \in {"old", "new"}
      BY DEF TypeOK, At
    <2>6. Carries(c)'
      BY <2>5 DEF TypeOK, Carries, Shared, At
    <2> QED BY <2>4, <2>5, <2>6, OneMoves DEF TypeOK, Carries, Shared, At
  <1>2. ASSUME ExportFails(c) PROVE IInv'
    <2> USE <1>2 DEF ExportFails, Go, Return
    <2>1. at' \in [Callers -> Kinds \X Places]
      BY DEF TypeOK, Kinds, Places
    <2>2. got' \in [Callers -> Values]
      BY DEF TypeOK, Values, Shared, Carries, At
    <2>3. uploads' \in [Callers -> [Files -> {"none", "half", "whole"}]]
      BY DEF TypeOK
    <2>4. TypeOK'
      BY <2>1, <2>2, <2>3 DEF TypeOK, Values, Carries, At
    <2>5. /\ At(c, "report", "export")
          /\ At(c, "report", "over")' /\ got'[c] = "raised"
      BY DEF TypeOK, At
    <2>6. Carries(c)'
      BY <2>5 DEF TypeOK, Carries, Shared, At
    <2> QED BY <2>4, <2>5, <2>6, OneMoves DEF TypeOK, Carries, Shared, At
  <1>3. ASSUME Replace(c) PROVE IInv'
    <2> USE <1>3 DEF Replace, Go, Return
    <2>1. at' \in [Callers -> Kinds \X Places]
      BY DEF TypeOK, Kinds, Places
    <2>2. got' \in [Callers -> Values]
      BY DEF TypeOK, Values, Shared, Carries, At
    <2>3. uploads' \in [Callers -> [Files -> {"none", "half", "whole"}]]
      BY DEF TypeOK
    <2>4. TypeOK'
      BY <2>1, <2>2, <2>3 DEF TypeOK, Values, Carries, At
    <2>5. /\ At(c, "report", "export")
          /\ At(c, "report", "stream")' /\ got'[c] = got[c] /\ report' = got[c]
      BY DEF TypeOK, At
    <2>6. Carries(c)'
      BY <2>5 DEF TypeOK, Carries, Shared, At
    <2> QED BY <2>4, <2>5, <2>6, OneMoves DEF TypeOK, Carries, Shared, At
  <1>4. ASSUME Stream(c) PROVE IInv'
    <2> USE <1>4 DEF Stream, Go, Return
    <2>1. at' \in [Callers -> Kinds \X Places]
      BY DEF TypeOK, Kinds, Places
    <2>2. got' \in [Callers -> Values]
      BY DEF TypeOK, Values, Shared, Carries, At
    <2>3. uploads' \in [Callers -> [Files -> {"none", "half", "whole"}]]
      BY DEF TypeOK
    <2>4. TypeOK'
      BY <2>1, <2>2, <2>3 DEF TypeOK, Values, Carries, At
    <2>5. /\ At(c, "report", "stream")
          /\ At(c, "report", "over")' /\ got'[c] = report
      BY DEF TypeOK, At
    <2>6. Carries(c)'
      BY <2>5 DEF TypeOK, Carries, Shared, At
    <2> QED BY <2>4, <2>5, <2>6, OneMoves DEF TypeOK, Carries, Shared, At
  <1> QED BY <1>1, <1>2, <1>3, <1>4

(* The uploads, and a caller that starts again.                               *)
LEMMA InvUpload ==
  ASSUME IInv, NEW c \in Callers,
         StartUpload(c) \/ OpenUpload(c) \/ FillUpload(c) \/ RefuseUpload(c) \/ UploadBreaks(c) \/ Again(c)
  PROVE  IInv'
PROOF
  <1> USE CachesAssumption DEF CachesAssumption, IInv, llmVars, numVars, reportVars
  <1>1. ASSUME StartUpload(c) PROVE IInv'
    <2> USE <1>1 DEF StartUpload, Go, Return
    <2>1. at' \in [Callers -> Kinds \X Places]
      BY DEF TypeOK, Kinds, Places, Files
    <2>2. got' \in [Callers -> Values]
      BY DEF TypeOK, Values, Shared, Carries, At
    <2>3. uploads' \in [Callers -> [Files -> {"none", "half", "whole"}]]
      BY DEF TypeOK
    <2>4. TypeOK'
      BY <2>1, <2>2, <2>3 DEF TypeOK, Values, Carries, At
    <2>5. /\ At(c, "idle", "idle")
          /\ At(c, "upload", "a")'
      BY DEF TypeOK, At, Files
    <2>6. Carries(c)'
      BY <2>5 DEF TypeOK, Carries, Shared, At
    <2> QED BY <2>4, <2>5, <2>6, OneMoves DEF TypeOK, Carries, Shared, At
  <1>2. ASSUME OpenUpload(c) PROVE IInv'
    <2> USE <1>2 DEF OpenUpload, Go, Return
    <2>1. at' \in [Callers -> Kinds \X Places]
      BY DEF TypeOK, Kinds, Places, Files
    <2>2. got' \in [Callers -> Values]
      BY DEF TypeOK, Values, Shared, Carries, At
    <2>3. uploads' \in [Callers -> [Files -> {"none", "half", "whole"}]]
      BY DEF TypeOK, Files, NoFiles
    <2>4. TypeOK'
      BY <2>1, <2>2, <2>3 DEF TypeOK, Values, Carries, At
    <2>5. /\ At(c, "upload", "a") \/ At(c, "upload", "h")
          /\ at'[c] = at[c] /\ got'[c] = got[c]
          /\ At(c, "upload", "h") => uploads'[c]["a"] = uploads[c]["a"]
      BY DEF TypeOK, At, Files
    <2>6. Carries(c)'
      BY <2>5 DEF TypeOK, Carries, Shared, At, Files, NoFiles
    <2> QED BY <2>4, <2>5, <2>6, OneMoves DEF TypeOK, Carries, Shared, At
  <1>3. ASSUME FillUpload(c) PROVE IInv'
    <2>1. /\ at[c][1] = "upload" 
          /\ \/ at[c] = <<"upload", "a">> /\ at[c][2] = "a"
             \/ at[c] = <<"upload", "h">> /\ at[c][2] = "h"
      BY <1>3 DEF FillUpload, TypeOK, Kinds, Places, Files
    <2>2. /\ UNCHANGED <<llmVars, parsed, numVars, reportVars>>
          /\ \/ /\ at[c] = <<"upload", "a">> /\ at' = [at EXCEPT ![c] = <<"upload", "h">>]
                /\ uploads' = [uploads EXCEPT ![c]["a"] = "whole"] /\ UNCHANGED got
             \/ /\ at[c] = <<"upload", "h">> /\ at' = [at EXCEPT ![c] = <<"upload", "over">>]
                /\ uploads' = [uploads EXCEPT ![c]["h"] = "whole"] /\ got' = [got EXCEPT ![c] = "job"]
      BY <1>3, <2>1 DEF FillUpload, Go, Return
    <2> USE <2>2
    <2>3. at' \in [Callers -> Kinds \X Places]
      BY DEF TypeOK, Kinds, Places, Files
    <2>4. got' \in [Callers -> Values]
      BY DEF TypeOK, Values
    <2>5. uploads' \in [Callers -> [Files -> {"none", "half", "whole"}]]
      BY DEF TypeOK, Files, NoFiles
    <2>6. TypeOK'
      BY <2>3, <2>4, <2>5 DEF TypeOK, Values, Carries, At
    <2>7. /\ At(c, "upload", "a") \/ At(c, "upload", "h")
          /\ \/ At(c, "upload", "h")' /\ uploads'[c]["a"] = "whole"
             \/ /\ At(c, "upload", "over")' /\ got'[c] = "job"
                /\ At(c, "upload", "h") /\ uploads'[c]["a"] = uploads[c]["a"] /\ uploads'[c]["h"] = "whole"
      BY DEF TypeOK, At, Files
    <2>8. Carries(c)'
      BY <2>7 DEF TypeOK, Carries, Shared, At, Files, NoFiles
    <2>9. /\ \A d \in Callers \ {c} :
               at'[d] = at[d] /\ got'[d] = got[d] /\ uploads'[d] = uploads[d]
          /\ told \ {c} \subseteq told'
      BY DEF TypeOK
    <2>10. blanks' >= blanks /\ UNCHANGED <<answer, report, numVars>> /\ ~At(c, "num", "compute")
      BY <2>7 DEF TypeOK, At
    <2> QED BY <2>6, <2>8, <2>9, <2>10, OneMoves DEF Shared
  <1>4. ASSUME RefuseUpload(c) PROVE IInv'
    <2> USE <1>4 DEF RefuseUpload, Go, Return
    <2>1. at' \in [Callers -> Kinds \X Places]
      BY DEF TypeOK, Kinds, Places, Files
    <2>2. got' \in [Callers -> Values]
      BY DEF TypeOK, Values, Shared, Carries, At
    <2>3. uploads' \in [Callers -> [Files -> {"none", "half", "whole"}]]
      BY DEF TypeOK, Files, NoFiles
    <2>4. TypeOK'
      BY <2>1, <2>2, <2>3 DEF TypeOK, Values, Carries, At
    <2>5. /\ At(c, "upload", "a") \/ At(c, "upload", "h")
          /\ At(c, "upload", "over")' /\ got'[c] = "refused" /\ uploads'[c] = NoFiles
      BY DEF TypeOK, At, Files
    <2>6. Carries(c)'
      BY <2>5 DEF TypeOK, Carries, Shared, At, Files, NoFiles
    <2> QED BY <2>4, <2>5, <2>6, OneMoves DEF TypeOK, Carries, Shared, At
  <1>5. ASSUME UploadBreaks(c) PROVE IInv'
    <2> USE <1>5 DEF UploadBreaks, Go, Return
    <2>1. at' \in [Callers -> Kinds \X Places]
      BY DEF TypeOK, Kinds, Places, Files
    <2>2. got' \in [Callers -> Values]
      BY DEF TypeOK, Values, Shared, Carries, At
    <2>3. uploads' \in [Callers -> [Files -> {"none", "half", "whole"}]]
      BY DEF TypeOK, Files, NoFiles
    <2>4. TypeOK'
      BY <2>1, <2>2, <2>3 DEF TypeOK, Values, Carries, At
    <2>5. /\ At(c, "upload", "a") \/ At(c, "upload", "h")
          /\ At(c, "upload", "over")' /\ got'[c] = "raised"
      BY DEF TypeOK, At, Files
    <2>6. Carries(c)'
      BY <2>5 DEF TypeOK, Carries, Shared, At, Files, NoFiles
    <2> QED BY <2>4, <2>5, <2>6, OneMoves DEF TypeOK, Carries, Shared, At
  <1>6. ASSUME Again(c) PROVE IInv'
    <2> USE <1>6 DEF Again, Go, Return
    <2>1. at' \in [Callers -> Kinds \X Places]
      BY DEF TypeOK, Kinds, Places, Files
    <2>2. got' \in [Callers -> Values]
      BY DEF TypeOK, Values, Shared, Carries, At
    <2>3. uploads' \in [Callers -> [Files -> {"none", "half", "whole"}]]
      BY DEF TypeOK, Files, NoFiles
    <2>4. TypeOK'
      BY <2>1, <2>2, <2>3 DEF TypeOK, Values, Carries, At
    <2>5. /\ ~At(c, "num", "compute")
          /\ At(c, "idle", "idle")'
      BY DEF TypeOK, At, Files
    <2>6. Carries(c)'
      BY <2>5 DEF TypeOK, Carries, Shared, At, Files, NoFiles
    <2> QED BY <2>4, <2>5, <2>6, OneMoves DEF TypeOK, Carries, Shared, At
  <1> QED BY <1>1, <1>2, <1>3, <1>4, <1>5, <1>6

(* The numeric differences: whoever enters the lock finds the cache empty and *)
(* nobody at work, or leaves again.                                           *)
LEMMA InvNumeric ==
  ASSUME IInv, NEW c \in Callers, LookNumeric(c) \/ LockNumeric(c) \/ ComputeNumeric(c)
  PROVE  IInv'
PROOF
  <1> USE CachesAssumption DEF CachesAssumption, IInv, llmVars, numVars, reportVars
  <1>1. ASSUME LookNumeric(c) PROVE IInv'
    <2>1. /\ at[c] = <<"idle", "idle">> /\ UNCHANGED <<llmVars, parsed, numVars, reportVars, uploads>>
          /\ \/ at' = [at EXCEPT ![c] = <<"num", "lock">>] /\ UNCHANGED got
             \/ at' = [at EXCEPT ![c] = <<"num", "over">>] /\ got' = [got EXCEPT ![c] = "diffs"]
      BY <1>1 DEF LookNumeric, Go
    <2> USE <2>1
    <2>2. at' \in [Callers -> Kinds \X Places]
      BY DEF TypeOK, Kinds, Places
    <2>3. got' \in [Callers -> Values]
      BY DEF TypeOK, Values
    <2>4. At(c, "idle", "idle") /\ (At(c, "num", "lock")' \/ At(c, "num", "over")')
      BY DEF TypeOK, At
    <2>5. TypeOK'
      BY <2>2, <2>3 DEF TypeOK
    <2>6. Carries(c)'
      BY <2>4 DEF Carries, At
    <2>7. \A d \in Callers \ {c} : at'[d] = at[d] /\ got'[d] = got[d]
      BY DEF TypeOK
    <2>8. blanks' >= blanks /\ ~At(c, "num", "compute")
      BY <2>4 DEF TypeOK, At
    <2> QED BY <2>5, <2>6, <2>7, <2>8, OneMoves DEF Shared
  <1>2. ASSUME LockNumeric(c), numeric PROVE IInv'
    <2>1. at[c] = <<"num", "lock">> /\ at[c][1] = "num"
      BY <1>2 DEF LockNumeric
    <2>2. /\ at' = [at EXCEPT ![c] = <<"num", "over">>] /\ got' = [got EXCEPT ![c] = "diffs"]
          /\ UNCHANGED <<llmVars, parsed, numVars, reportVars, uploads>>
      BY <1>2, <2>1 DEF LockNumeric, Return
    <2>3. at' \in [Callers -> Kinds \X Places] /\ got' \in [Callers -> Values]
      BY <2>2 DEF TypeOK, Kinds, Places, Values
    <2>4. At(c, "num", "lock") /\ At(c, "num", "over")'
      BY <2>1, <2>2 DEF TypeOK, At
    <2>5. TypeOK' /\ Carries(c)'
      BY <2>2, <2>3, <2>4 DEF TypeOK, Carries, At
    <2>6. \A d \in Callers \ {c} : at'[d] = at[d] /\ got'[d] = got[d]
      BY <2>2 DEF TypeOK
    <2>7. blanks' >= blanks /\ ~At(c, "num", "compute")
      BY <2>2, <2>4 DEF TypeOK, At
    <2> QED BY <2>2, <2>5, <2>6, <2>7, OneMoves DEF Shared
  <1>3. ASSUME LockNumeric(c), ~numeric PROVE IInv'
    <2>1. /\ at[c] = <<"num", "lock">> /\ lock = None /\ lock' = c /\ computed' = computed \union {c}
          /\ at' = [at EXCEPT ![c] = <<"num", "compute">>]
          /\ UNCHANGED <<got, llmVars, parsed, numeric, reportVars, uploads>>
      BY <1>3 DEF LockNumeric, Go
    <2>2. at' \in [Callers -> Kinds \X Places]
      BY <2>1 DEF TypeOK, Kinds, Places
    <2>3. TypeOK'
      BY <2>1, <2>2 DEF TypeOK
    <2>4. At(c, "num", "compute")' /\ (\A d \in Callers \ {c} : at'[d] = at[d])
      BY <2>1 DEF TypeOK, At
    <2>5. computed' = {c} /\ ~numeric'
      BY <1>3, <2>1 DEF Shared
    <2>6. Shared'
      BY <2>1, <2>4, <2>5 DEF TypeOK, Shared
    <2>7. Carries(c)'
      BY <2>1, <2>4 DEF Carries, At
    <2>8. \A d \in Callers \ {c} : Carries(d)'
      BY <2>1, <2>4 DEF Carries, At
    <2> QED BY <2>3, <2>6, <2>7, <2>8
  <1>4. ASSUME ComputeNumeric(c) PROVE IInv'
    <2>1. at[c] = <<"num", "compute">> /\ at[c][1] = "num" /\ lock = c /\ ~numeric /\ computed = {c}
      BY <1>4 DEF ComputeNumeric, Carries, Shared, At
    <2>2. /\ at' = [at EXCEPT ![c] = <<"num", "over">>] /\ lock' = None
          /\ UNCHANGED <<llmVars, parsed, reportVars, uploads>>
          /\ \/ numeric' = TRUE /\ UNCHANGED computed /\ got' = [got EXCEPT ![c] = "diffs"]
             \/ numeric' = numeric /\ computed' = {} /\ got' = [got EXCEPT ![c] = "raised"]
      BY <1>4, <2>1 DEF ComputeNumeric, Return
    <2>3. at' \in [Callers -> Kinds \X Places] /\ got' \in [Callers -> Values]
      BY <2>2 DEF TypeOK, Kinds, Places, Values
    <2>4. numeric' \in BOOLEAN /\ computed' \subseteq Callers
      BY <2>1, <2>2 DEF TypeOK
    <2>5. TypeOK'
      BY <2>2, <2>3, <2>4 DEF TypeOK
    <2>6. /\ At(c, "num", "over")'
          /\ \A d \in Callers \ {c} : at'[d] = at[d] /\ got'[d] = got[d] /\ ~At(d, "num", "compute")
      BY <2>1, <2>2 DEF TypeOK, Carries, At
    <2>7. Shared'
      BY <2>1, <2>2 DEF Shared
    <2>8. Carries(c)'
      BY <2>6 DEF Carries, At
    <2>9. \A d \in Callers \ {c} : Carries(d)'
      BY <2>2, <2>6 DEF Carries, At
    <2> QED BY <2>5, <2>7, <2>8, <2>9
  <1> QED BY <1>1, <1>2, <1>3, <1>4

(* The job changes, or all threads of the service are killed.                 *)
LEMMA InvService ==
  ASSUME IInv, ChangeJob \/ Restart
  PROVE  IInv'
PROOF
  <1> USE CachesAssumption DEF CachesAssumption, IInv, llmVars, numVars, reportVars
  <1>1. CASE ChangeJob
    BY <1>1 DEF ChangeJob, TypeOK, Shared, Carries, At
  <1>2. CASE Restart
    <2> USE <1>2 DEF Restart
    <2>1. at' \in [Callers -> Kinds \X Places] /\ got' \in [Callers -> Values]
      BY DEF Kinds, Places, Values
    <2>2. uploads' \in [Callers -> [Files -> {"none", "half", "whole"}]]
      BY DEF NoFiles, Files
    <2>3. tries' \in [Callers -> 0 .. Attempts]
      OBVIOUS
    <2>4. TypeOK'
      BY <2>1, <2>2, <2>3 DEF TypeOK
    <2>5. Shared' /\ \A c \in Callers : Carries(c)'
      BY DEF Shared, Carries, At
    <2> QED BY <2>4, <2>5
  <1> QED BY <1>1, <1>2

LEMMA InvNext == IInv /\ [Next]_vars => IInv'
PROOF
  <1> SUFFICES ASSUME IInv, [Next]_vars PROVE IInv'
    OBVIOUS
  <1>1. CASE UNCHANGED vars
    BY <1>1 DEF vars, llmVars, numVars, reportVars, IInv, TypeOK, Shared, Carries, At
  <1> QED BY <1>1, InvAnswers, InvParse, InvNumeric, InvReport, InvUpload, InvService DEF Next

(* Every variable of the caches and files keeps its type.                     *)
THEOREM TypeCorrect == Spec => []TypeOK
PROOF
  <1>1. IInv => TypeOK
    BY DEF IInv
  <1> QED BY <1>1, InvInit, InvNext, PTL DEF Spec

(* No failed call of the model is remembered as an answer, whoever made it: a *)
(* blank that is stored was answered.  And whoever gets a blank one for a job *)
(* has its failure on record, or the model did answer so.                     *)
THEOREM NoFailureIsCached == Spec => []FailuresAreTold
PROOF
  <1>1. IInv => FailuresAreTold
    BY CachesAssumption DEF CachesAssumption, IInv, Shared, Carries, At, FailuresAreTold, Over
  <1> QED BY <1>1, InvInit, InvNext, PTL DEF Spec

(* However many requests ask at once, the numeric differences of a job are    *)
(* computed by one of them.                                                   *)
THEOREM NumericIsComputedOnce == Spec => []NumericOnce
PROOF
  <1>1. IInv => NumericOnce
    <2> SUFFICES ASSUME IInv PROVE NumericOnce
      OBVIOUS
    <2>1. numeric => lock = None
      BY DEF IInv, Shared
    <2>2. CASE computed = {}
      BY <2>1, <2>2, FS_EmptySet DEF NumericOnce
    <2>3. CASE computed # {}
      <3>1. PICK c \in computed : computed = {c}
        BY <2>3 DEF IInv, Shared
      <3> QED BY <2>1, <3>1, FS_Singleton DEF NumericOnce
    <2> QED BY <2>2, <2>3
  <1> QED BY <1>1, InvInit, InvNext, PTL DEF Spec

(* Nobody works with half a parse, streams half a report, or starts a job     *)
(* with half an upload.                                                       *)
THEOREM NobodyUsesHalf == Spec => []NothingHalf
PROOF
  <1>1. IInv => NothingHalf
    <2> SUFFICES ASSUME IInv, NEW c \in Callers
                 PROVE  /\ Over(c, "pdf") => got[c] = "whole"
                        /\ Over(c, "report") => got[c] # "half"
                        /\ Over(c, "upload") /\ got[c] = "job" => uploads[c] = [f \in Files |-> "whole"]
                        /\ Over(c, "upload") /\ got[c] = "refused" => uploads[c] = NoFiles
      BY DEF NothingHalf
    <2>1. Carries(c) /\ uploads[c] \in [Files -> {"none", "half", "whole"}]
      BY DEF IInv, TypeOK
    <2> QED BY <2>1 DEF Carries, At, Over
  <1> QED BY <1>1, InvInit, InvNext, PTL DEF Spec
=============================================================================
