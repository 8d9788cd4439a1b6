------------------------- MODULE TemplateEditorProofs --------------------------
(***************************************************************************)
(* What TemplateEditor promises, proved for any types, defaults, acts and  *)
(* restarts.                                                               *)
(*                                                                         *)
(* The page does not promise all of it to every user.  Each theorem names  *)
(* what it needs: a user who waits for what is under way (Patient), or who *)
(* does not save what may be another type's text (Heedful).  Any request   *)
(* may fail in all of them, and any write half way.                        *)
(***************************************************************************)
EXTENDS TemplateEditor, SequenceTheorems, TLAPS

-------------------------------------------------------------------------------
(***************************************************************************)
(* The steps of Next, by name.                                             *)
(***************************************************************************)
LEMMA Steps ==
    ASSUME Next, NEW P,
           Type \/ Empty => P,
           ClickSave => P, ClickDelete => P,
           \A t \in Types : ClickTab(t) => P,
           \A t \in Types : ClickCreate(t) => P,
           Restart => P,
           TimerFires => P,
           \A i \in DOMAIN previews : PreviewBack(i) => P,
           \A r \in requests : Serve(r) => P,
           \A r \in requests : Fail(r) => P,
           \A r \in requests : ListBack(r) => P,
           \A r \in requests : GetBack(r) => P,
           \A r \in requests : PutBack(r) => P,
           \A r \in requests : CreateBack(r) => P,
           \A r \in requests : DeleteBack(r) => P
    PROVE  P
<1> QED  BY DEF Next, UserStep, PageStep

-------------------------------------------------------------------------------
(***************************************************************************)
(* The model's own operators.                                              *)
(***************************************************************************)
Kinds == {"list", "get", "put", "create", "delete"}

LEMMA Bounds == MaxActs \in Nat /\ MaxRestarts \in Nat /\ NoType \notin Types
                /\ Defaults \subseteq Types /\ Patient \in BOOLEAN /\ Heedful \in BOOLEAN
<1> QED  BY EditorAssumption

LEMMA Texts ==
    /\ Blank \in Text
    /\ \A t \in Types : Given(t) \in Text /\ Given(t).of = t
    /\ \A x \in Text : IsBlank(x) \/ x.of \in Types
<1> QED  BY Bounds DEF Text, Blank, Given, IsBlank

\* What a write leaves of a text is a text, for the type it was written for.
LEMMA LeftOfText ==
    ASSUME NEW x \in Text
    PROVE  /\ Capped(x) \in Text /\ Capped(x).of = x.of
           /\ \A y \in Torn(x) : y \in Text /\ y.of = x.of
<1>1. CASE x = Blank
  <2>1. x.size = "short" /\ IsBlank(x) /\ [of |-> x.of, v |-> -1, size |-> "short"] = Blank
    BY <1>1 DEF Blank, IsBlank
  <2>2. Capped(x) = x /\ Torn(x) = {Blank}
    BY <2>1 DEF Capped, Torn
  <2> QED  BY <1>1, <2>2
<1>2. CASE x \in [of : Types, v : -1..MaxActs, size : {"short", "long", "cut"}]
  <2>1. -1 \in -1..MaxActs
    BY Bounds
  <2>2. /\ [x EXCEPT !.size = "cut"] \in Text /\ [x EXCEPT !.size = "cut"].of = x.of
        /\ [of |-> x.of, v |-> -1, size |-> "short"] \in Text
        /\ [of |-> x.of, v |-> -1, size |-> "short"].of = x.of
    BY <1>2, <2>1 DEF Text
  <2> QED  BY <2>2 DEF Capped, Torn
<1> QED  BY <1>1, <1>2 DEF Text

LEMMA SentIs ==
    ASSUME NEW n \in -1..MaxActs, NEW kind \in Kinds, NEW t \in Types \cup {NoType},
           NEW text \in Text \cup {NoText}
    PROVE  /\ Sent(n, kind, t, text) \in Request
           /\ Sent(n, kind, t, text).act = n
           /\ Sent(n, kind, t, text).kind = kind
           /\ Sent(n, kind, t, text).type = t
           /\ Sent(n, kind, t, text).text = text
           /\ Sent(n, kind, t, text).stage = "sent"
<1> QED  BY DEF Sent, Request, Kinds

LEMMA RemovedType ==
    ASSUME NEW S, NEW s \in Seq(S), NEW i \in DOMAIN s
    PROVE  RemoveAt(s, i) \in Seq(S)
<1>1. Len(s) \in Nat /\ i \in 1..Len(s)
  BY LenProperties
<1>2. SubSeq(s, 1, i - 1) \in Seq(S)
  <2>1. \A k \in 1..(i - 1) : s[k] \in S
    BY <1>1, ElementOfSeq
  <2> QED  BY <1>1, <2>1, SubSeqProperties
<1>3. SubSeq(s, i + 1, Len(s)) \in Seq(S)
  <2>1. \A k \in (i + 1)..Len(s) : s[k] \in S
    BY <1>1, ElementOfSeq
  <2> QED  BY <1>1, <2>1, SubSeqProperties
<1> QED  BY <1>2, <1>3, ConcatProperties DEF RemoveAt

LEMMA FirstTabIs ==
    ASSUME NEW tabs, tabs # {}
    PROVE  FirstTab(tabs) \in tabs
<1> QED  BY DEF FirstTab

-------------------------------------------------------------------------------
(***************************************************************************)
(* Types, and what a request carries by its kind.                          *)
(***************************************************************************)
Written(r) ==
    /\ r.kind # "list" => r.type \in Types
    /\ r.kind \in {"put", "create"} => r.text \in Text
    /\ r.kind = "get" /\ r.stage = "ok" => r.text \in Text

Asked == \A r \in requests : Written(r)

Typed == TypeOK /\ Asked

LEMMA RequestKinds ==
    ASSUME Typed, NEW r \in requests
    PROVE  /\ r \in Request /\ r.kind \in Kinds /\ r.act \in -1..MaxActs
           /\ r.stage \in {"sent", "ok", "failed"} /\ Written(r)
<1> QED  BY DEF Typed, TypeOK, Asked, Request, Kinds

Writes == {"put", "create", "delete"}

\* Serving anything changes a file only under a write, that of its type.
LEMMA EffectIs ==
    ASSUME Typed, NEW r \in requests
    PROVE  /\ Effect(r) \in [Types -> Text \cup {NoText}]
           /\ r.kind \notin Writes => Effect(r) = files
           /\ \A t \in Types : t # r.type => Effect(r)[t] = files[t]
           /\ r.kind \in {"put", "create"} => Effect(r)[r.type] = Capped(r.text)
           /\ r.kind = "delete" => Effect(r)[r.type] = NoText
<1>1. files \in [Types -> Text \cup {NoText}] /\ Written(r)
  BY RequestKinds DEF Typed, TypeOK
<1>2. CASE r.kind \in {"put", "create"}
  <2>1. Effect(r) = [files EXCEPT ![r.type] = Capped(r.text)] /\ r.type \in Types
    BY <1>1, <1>2 DEF Effect, Written
  <2>2. Capped(r.text) \in Text
    BY <1>1, <1>2, LeftOfText DEF Written
  <2> QED  BY <1>1, <1>2, <2>1, <2>2 DEF Writes
<1>3. CASE r.kind = "delete"
  <2>1. Effect(r) = [files EXCEPT ![r.type] = NoText] /\ r.type \in Types
    BY <1>1, <1>3 DEF Effect, Written
  <2> QED  BY <1>1, <1>3, <2>1 DEF Writes
<1>4. CASE r.kind \notin Writes
  <2>1. Effect(r) = files
    BY <1>4 DEF Effect, Writes
  <2> QED  BY <1>1, <1>4, <2>1 DEF Writes
<1> QED  BY <1>2, <1>3, <1>4 DEF Writes

\* The same of a request that fails, whatever became of it.
Outcomes(r) == {files, Effect(r)} \cup HalfDone(r)

LEMMA OutcomesAre ==
    ASSUME Typed, NEW r \in requests, NEW fs \in Outcomes(r)
    PROVE  /\ fs \in [Types -> Text \cup {NoText}]
           /\ r.kind \notin Writes => fs = files
           /\ \A t \in Types : t # r.type => fs[t] = files[t]
           /\ r.kind \in {"put", "create"} =>
                 fs[r.type] = files[r.type] \/ fs[r.type].of = r.text.of
           /\ r.kind = "delete" => fs[r.type] \in {files[r.type], NoText}
<1>1. files \in [Types -> Text \cup {NoText}] /\ Written(r)
  BY RequestKinds DEF Typed, TypeOK
<1>2. CASE fs = files
  BY <1>1, <1>2
<1>3. CASE fs = Effect(r)
  <2>1. r.kind \in {"put", "create"} => Capped(r.text).of = r.text.of
    BY <1>1, LeftOfText DEF Written
  <2> QED  BY <1>3, <2>1, EffectIs
<1>4. CASE fs \in HalfDone(r)
  <2>1. r.kind \in {"put", "create"} /\ r.type \in Types /\ r.text \in Text
    BY <1>1, <1>4 DEF HalfDone, Written
  <2>2. PICK text \in Torn(r.text) : fs = [files EXCEPT ![r.type] = text]
    BY <1>4, <2>1 DEF HalfDone
  <2>3. text \in Text /\ text.of = r.text.of
    BY <2>1, <2>2, LeftOfText
  <2> QED  BY <1>1, <2>1, <2>2, <2>3 DEF Writes
<1> QED  BY <1>2, <1>3, <1>4 DEF Outcomes

LEMMA FailedIs ==
    ASSUME Typed, NEW r \in requests
    PROVE  LET f == [r EXCEPT !.stage = "failed"] IN
           /\ f \in Request /\ Written(f)
           /\ f.act = r.act /\ f.kind = r.kind /\ f.type = r.type /\ f.text = r.text
           /\ f.stage = "failed"
<1>1. r \in Request /\ Written(r)
  BY RequestKinds
<1> QED  BY <1>1 DEF Request, Written

LEMMA AnswerIs ==
    ASSUME Typed, NEW r \in requests
    PROVE  /\ Answer(r) \in Request /\ Written(Answer(r))
           /\ Answer(r).act = r.act /\ Answer(r).kind = r.kind /\ Answer(r).type = r.type
           /\ r.kind # "get" => Answer(r).stage = "ok" /\ Answer(r).text = r.text
           /\ r.kind = "get" => /\ Answer(r).text = files[r.type]
                                /\ Answer(r).stage = IF files[r.type] = NoText THEN "failed" ELSE "ok"
           /\ r.kind = "list" => Answer(r).listed = {t \in Types : files[t] # NoText}
<1>1. r \in Request /\ Written(r) /\ files \in [Types -> Text \cup {NoText}]
  BY RequestKinds DEF Typed, TypeOK
<1>2. CASE r.kind = "list"
  <2>1. Answer(r) = [r EXCEPT !.stage = "ok", !.listed = {t \in Types : files[t] # NoText}]
    BY <1>2 DEF Answer
  <2> QED  BY <1>1, <1>2, <2>1 DEF Request, Written
<1>3. CASE r.kind = "get"
  <2>1. Answer(r) = [r EXCEPT !.stage = IF files[r.type] = NoText THEN "failed" ELSE "ok",
                              !.text = files[r.type]]
    BY <1>3 DEF Answer
  <2>2. r.type \in Types
    BY <1>1, <1>3 DEF Written
  <2> QED  BY <1>1, <1>3, <2>1, <2>2 DEF Request, Written
<1>4. CASE r.kind \notin {"list", "get"}
  <2>1. Answer(r) = [r EXCEPT !.stage = "ok"]
    BY <1>4 DEF Answer
  <2> QED  BY <1>1, <1>4, <2>1 DEF Request, Written
<1> QED  BY <1>2, <1>3, <1>4

\* A request that the daemon answers, or that fails.
Failed(r) == [r EXCEPT !.stage = "failed"]

DaemonStep == Restart \/ \E r \in requests : Serve(r) \/ Fail(r)

LEMMA DaemonMoves ==
    ASSUME Typed, DaemonStep
    PROVE  /\ UNCHANGED <<page, shown, stored, doubts, acts>>
           /\ \A q \in requests' :
                 \/ q \in requests
                 \/ \E r \in requests : /\ r.stage = "sent"
                                        /\ \/ q = Answer(r)
                                           \/ q = Failed(r) /\ r.kind \in MayFail
<1>1. CASE Restart
  BY <1>1 DEF Restart, Failed
<1>2. ASSUME NEW r \in requests, Serve(r) \/ Fail(r)
      PROVE  /\ UNCHANGED <<page, shown, stored, doubts, acts>>
             /\ \A q \in requests' : \/ q \in requests
                                     \/ r.stage = "sent" /\ q = Answer(r)
                                     \/ r.stage = "sent" /\ q = Failed(r) /\ r.kind \in MayFail
  BY <1>2 DEF Serve, Fail, Failed
<1> QED  BY <1>1, <1>2 DEF DaemonStep

\* A start writes the defaults that are missing, or may not be read.
LEMMA RestartIs ==
    ASSUME Typed, Restart
    PROVE  /\ files' \in [Types -> Text \cup {NoText}] /\ restarts' \in 0..MaxRestarts
           /\ \A t \in Types : files'[t] \in {files[t], Given(t)}
           /\ \A t \in Types \ AtRisk : files[t] # NoText => files'[t] = files[t]
<1>1. PICK unread \in SUBSET Unreadable : \E m \in SUBSET Missing(unread) : files' = Seeded(m)
  BY DEF Restart
<1>2. PICK m \in SUBSET Missing(unread) : files' = Seeded(m)
  BY <1>1
<1>3. files' = [t \in Types |-> IF t \in m THEN Given(t) ELSE files[t]]
  BY <1>2 DEF Seeded
<1>4. \A t \in m : files[t] = NoText \/ t \in AtRisk
  BY <1>2 DEF Missing, AtRisk
<1>5. restarts' \in 0..MaxRestarts
  BY Bounds DEF Restart, Typed, TypeOK
<1> QED  BY <1>3, <1>4, <1>5, Texts DEF Typed, TypeOK

LEMMA DaemonTyped ==
    ASSUME Typed, DaemonStep
    PROVE  Typed'
<1>1. /\ UNCHANGED <<page, shown, stored, doubts, acts>>
      /\ \A q \in requests' :
            q \in requests \/ \E r \in requests : q = Answer(r) \/ q = Failed(r)
  BY DaemonMoves
<1>2. \A q \in requests' : q \in Request /\ Written(q)
  BY <1>1, RequestKinds, AnswerIs, FailedIs DEF Failed
<1>3. files' \in [Types -> Text \cup {NoText}] /\ restarts' \in 0..MaxRestarts
  <2>1. CASE Restart
    BY <2>1, RestartIs
  <2>2. ASSUME NEW r \in requests, Serve(r) \/ Fail(r)
        PROVE  files' \in [Types -> Text \cup {NoText}] /\ restarts' \in 0..MaxRestarts
    <3>1. files' \in Outcomes(r) /\ restarts' = restarts
      BY <2>2 DEF Serve, Fail, Outcomes
    <3> QED  BY <3>1, OutcomesAre DEF Typed, TypeOK
  <2> QED  BY <2>1, <2>2 DEF DaemonStep
<1>4. TypeOK'
  BY <1>1, <1>2, <1>3 DEF Typed, TypeOK, page, shown
<1>5. Asked'
  BY <1>2 DEF Asked
<1> QED  BY <1>4, <1>5 DEF Typed

LEMMA OpenTypeTyped ==
    ASSUME NEW t \in Types, NEW was \in Types \cup {NoType}, NEW others,
           NEW n \in -1..MaxActs, unsaved \in BOOLEAN,
           \A r \in others : r \in Request /\ Written(r),
           OpenType(t, was, others, n)
    PROVE  /\ active' \in Types \cup {NoType} /\ unsaved' \in BOOLEAN
           /\ \A r \in requests' : r \in Request /\ Written(r)
<1> DEFINE get == Sent(n, "get", t, NoText)
<1>1. get \in Request /\ get.kind = "get" /\ get.type = t /\ get.stage = "sent"
  BY SentIs DEF Kinds
<1>2. Written(get)
  BY <1>1 DEF Written
<1> HIDE DEF get
<1>3. \/ active' = t /\ unsaved' = FALSE /\ requests' = others \cup {get}
      \/ active' = was /\ unsaved' = unsaved /\ requests' = others
  BY DEF OpenType, get
<1> QED  BY <1>1, <1>2, <1>3

\* A request that the user's act sends.
LEMMA SendTyped ==
    ASSUME Typed, Act, NEW kind \in Kinds, NEW t \in Types, NEW text \in Text \cup {NoText},
           kind \in {"put", "create"} => text \in Text,
           Send(kind, t, text), UNCHANGED <<files, page, shown, doubts, restarts>>
    PROVE  Typed'
<1>1. acts' \in 0..MaxActs /\ acts' \in -1..MaxActs
  BY Bounds DEF Act, Typed, TypeOK
<1> DEFINE send == Sent(acts', kind, t, text)
<1>2. /\ send \in Request /\ send.kind = kind /\ send.type = t
      /\ send.text = text /\ send.stage = "sent"
  BY <1>1, SentIs
<1> HIDE DEF send
<1>3. Written(send)
  BY <1>2 DEF Written
<1>4. requests' = requests \cup {send} /\ stored' = [stored EXCEPT ![t] = NoText]
  BY DEF Send, send
<1>5. TypeOK'
  BY <1>1, <1>2, <1>4 DEF Typed, TypeOK, page, shown
<1> QED  BY <1>3, <1>4, <1>5 DEF Typed, Asked

\* The rest of the page's functions leave typed what they change.
LEMMA WithoutTyped ==
    ASSUME Typed, NEW r
    PROVE  \A q \in Without(r) : q \in Request /\ Written(q)
<1> QED  BY RequestKinds DEF Without

LEMMA ListBackTyped ==
    ASSUME Typed, NEW r \in requests, ListBack(r)
    PROVE  Typed'
<1>1. r \in Request /\ r.act \in -1..MaxActs
  BY RequestKinds
<1>2. types' \in SUBSET Types
  BY <1>1 DEF ListBack, Typed, TypeOK, Request
<1> DEFINE wanted == IF r.type = NoType THEN types' ELSE {r.type}
<1>3. wanted \subseteq Types
  BY <1>1, <1>2 DEF Request
<1>4. /\ active' \in Types \cup {NoType} /\ unsaved' \in BOOLEAN
      /\ \A q \in requests' : q \in Request /\ Written(q)
  <2>1. CASE requests' = Without(r) /\ UNCHANGED <<active, unsaved>>
    BY <2>1, WithoutTyped DEF Typed, TypeOK
  <2>2. CASE wanted # {} /\ OpenType(FirstTab(wanted), active, Without(r), r.act)
    <3> HIDE DEF wanted
    <3>1. FirstTab(wanted) \in Types
      BY <2>2, <1>3, FirstTabIs
    <3>2. active \in Types \cup {NoType} /\ unsaved \in BOOLEAN
      BY DEF Typed, TypeOK
    <3>3. \A q \in Without(r) : q \in Request /\ Written(q)
      BY WithoutTyped
    <3>4. OpenType(FirstTab(wanted), active, Without(r), r.act)
      BY <2>2
    <3> QED  BY <1>1, <3>1, <3>2, <3>3, <3>4, OpenTypeTyped
  <2> QED  BY <2>1, <2>2 DEF ListBack
<1>5. UNCHANGED <<files, editor, shown, stored, doubts, acts, restarts>>
  BY DEF ListBack
<1>6. TypeOK'
  BY <1>2, <1>4, <1>5 DEF Typed, TypeOK, shown
<1>7. Asked'
  BY <1>4 DEF Asked
<1> QED  BY <1>6, <1>7 DEF Typed

LEMMA UpdatePreviewTyped ==
    ASSUME TypeOK, NEW text \in Text, UpdatePreview(text)
    PROVE  preview' \in Text \cup {NoText} /\ previews' \in Seq(Text) /\ overtaken' \in BOOLEAN
<1>1. preview \in Text \cup {NoText} /\ previews \in Seq(Text) /\ Blank \in Text
  BY Texts DEF TypeOK
<1>2. CASE IsBlank(text)
  BY <1>1, <1>2 DEF UpdatePreview
<1>3. CASE ~IsBlank(text)
  <2>1. overtaken' = FALSE /\ preview' = preview /\ previews' = Append(previews, text)
    BY <1>3 DEF UpdatePreview
  <2> QED  BY <1>1, <2>1, AppendProperties
<1> QED  BY <1>2, <1>3

LEMMA SetValueTyped ==
    ASSUME TypeOK, NEW text \in Text, SetValue(text)
    PROVE  editor' \in Text /\ unsaved' \in BOOLEAN /\ timer' \in BOOLEAN
<1> QED  BY DEF SetValue, TypeOK

LEMMA GetBackTyped ==
    ASSUME Typed, NEW r \in requests, GetBack(r)
    PROVE  Typed'
<1>1. \A q \in requests' : q \in Request /\ Written(q)
  BY WithoutTyped DEF GetBack
<1>2. UNCHANGED <<files, types, active, stored, acts, restarts>> /\ doubts' \subseteq Doubt
  BY DEF GetBack, Typed, TypeOK, Doubt
<1>3. /\ editor' \in Text /\ unsaved' \in BOOLEAN /\ timer' \in BOOLEAN
      /\ preview' \in Text \cup {NoText} /\ previews' \in Seq(Text) /\ overtaken' \in BOOLEAN
  <2>1. CASE r.stage = "ok"
    <3>1. r.text \in Text
      BY <2>1, RequestKinds DEF GetBack, Back, Written
    <3>2. SetValue(r.text) /\ UpdatePreview(r.text)
      BY <2>1 DEF GetBack
    <3> QED  BY <3>1, <3>2, SetValueTyped, UpdatePreviewTyped DEF Typed
  <2>2. CASE r.stage # "ok"
    BY <2>2 DEF GetBack, Typed, TypeOK, shown
  <2> QED  BY <2>1, <2>2
<1>4. TypeOK'
  BY <1>1, <1>2, <1>3 DEF Typed, TypeOK
<1>5. Asked'
  BY <1>1 DEF Asked
<1> QED  BY <1>4, <1>5 DEF Typed

LEMMA WrittenBackTyped ==
    ASSUME Typed, NEW r \in requests, PutBack(r) \/ CreateBack(r)
    PROVE  Typed'
<1>1. r.type \in Types /\ r.text \in Text /\ r.act \in -1..MaxActs
  BY RequestKinds DEF PutBack, CreateBack, Back, Written
<1>2. stored' \in [Types -> Text \cup {NoText}]
  BY <1>1 DEF PutBack, CreateBack, Typed, TypeOK
<1> DEFINE list == Sent(r.act, "list", r.type, NoText)
<1>3. list \in Request /\ list.kind = "list" /\ list.stage = "sent"
  BY <1>1, SentIs DEF Kinds
<1>4. Written(list)
  BY <1>3 DEF Written
<1> HIDE DEF list
<1>5. \A q \in requests' : q \in Without(r) \/ q = list
  BY DEF PutBack, CreateBack, list
<1>6. \A q \in requests' : q \in Request /\ Written(q)
  BY <1>3, <1>4, <1>5, WithoutTyped
<1>7. UNCHANGED <<files, types, active, editor, shown, acts, restarts>> /\ unsaved' \in BOOLEAN
      /\ doubts' \subseteq Doubt
  BY DEF PutBack, CreateBack, DoubtsAfterPut, Doubt, Typed, TypeOK, page
<1>8. TypeOK'
  BY <1>2, <1>6, <1>7 DEF Typed, TypeOK, shown
<1>9. Asked'
  BY <1>6 DEF Asked
<1> QED  BY <1>8, <1>9 DEF Typed

LEMMA DeleteBackTyped ==
    ASSUME Typed, NEW r \in requests, DeleteBack(r)
    PROVE  Typed'
<1>1. r.act \in -1..MaxActs
  BY RequestKinds
<1>2. UNCHANGED <<files, preview, previews, overtaken, stored, acts, restarts>>
      /\ doubts' \subseteq Doubt
  BY DEF DeleteBack, Typed, TypeOK, Doubt
<1>3. /\ types' \in SUBSET Types /\ active' \in Types \cup {NoType}
      /\ editor' \in Text /\ unsaved' \in BOOLEAN /\ timer' \in BOOLEAN
      /\ \A q \in requests' : q \in Request /\ Written(q)
  <2>1. CASE r.stage # "ok"
    BY <2>1, WithoutTyped DEF DeleteBack, Typed, TypeOK, page
  <2>2. CASE r.stage = "ok"
    <3> DEFINE next == FirstTab(types')
    <3>1. types' \in SUBSET Types
      BY <2>2 DEF DeleteBack, Typed, TypeOK
    <3>2. CASE /\ types' # {} /\ OpenType(next, next, Without(r), r.act)
               /\ UNCHANGED <<editor, timer>>
      <4>1. next \in Types
        BY <3>1, <3>2, FirstTabIs
      <4> HIDE DEF next
      <4>2. unsaved \in BOOLEAN /\ \A q \in Without(r) : q \in Request /\ Written(q)
        BY WithoutTyped DEF Typed, TypeOK
      <4>3. OpenType(next, next, Without(r), r.act)
        BY <3>2
      <4>4. /\ active' \in Types \cup {NoType} /\ unsaved' \in BOOLEAN
            /\ \A q \in requests' : q \in Request /\ Written(q)
        BY <1>1, <4>1, <4>2, <4>3, OpenTypeTyped
      <4> QED  BY <3>1, <3>2, <4>4 DEF Typed, TypeOK
    <3>3. CASE types' = {} /\ active' = next /\ SetValue(Blank) /\ requests' = Without(r)
      <4>1. active' = NoType
        BY <3>3 DEF FirstTab
      <4> QED  BY <3>3, <4>1, Texts, SetValueTyped, WithoutTyped DEF Typed
    <3> QED  BY <2>2, <3>2, <3>3 DEF DeleteBack
  <2> QED  BY <2>1, <2>2
<1>4. TypeOK'
  BY <1>2, <1>3 DEF Typed, TypeOK
<1>5. Asked'
  BY <1>3 DEF Asked
<1> QED  BY <1>4, <1>5 DEF Typed

LEMMA TypedStep ==
    ASSUME Typed, [Next]_vars
    PROVE  Typed'
<1>1. CASE UNCHANGED vars
  BY <1>1 DEF vars, page, shown, Typed, TypeOK, Asked
<1>2. CASE Next
  <2>1. ASSUME Type \/ Empty PROVE Typed'
    <3>1. acts' \in 0..MaxActs /\ acts' \in -1..MaxActs /\ -1 \in -1..MaxActs
      BY <2>1, Bounds DEF Type, Empty, Act, Typed, TypeOK
    <3>2. active \in Types /\ (IsBlank(editor) \/ editor.of \in Types)
      BY <2>1, Texts DEF Type, Empty, Typed, TypeOK
    <3>3. editor' \in Text
      BY <2>1, <3>1, <3>2 DEF Type, Empty, Text
    <3>4. UNCHANGED <<files, requests, types, active, preview, previews, overtaken, stored, doubts,
                      restarts>>
          /\ unsaved' = TRUE /\ timer' = TRUE
      BY <2>1 DEF Type, Empty
    <3> QED  BY <3>1, <3>3, <3>4 DEF Typed, TypeOK, Asked
  <2>2. ASSUME ClickSave PROVE Typed'
    <3>1. active \in Types /\ editor \in Text
      BY <2>2 DEF ClickSave, Typed, TypeOK
    <3> QED  BY <2>2, <3>1, SendTyped DEF ClickSave, Kinds
  <2>3. ASSUME ClickDelete PROVE Typed'
    <3>1. active \in Types
      BY <2>3 DEF ClickDelete, Typed, TypeOK
    <3> QED  BY <2>3, <3>1, SendTyped DEF ClickDelete, Kinds
  <2>4. ASSUME NEW t \in Types, ClickTab(t) PROVE Typed'
    <3>1. acts' \in 0..MaxActs /\ acts' \in -1..MaxActs
      BY <2>4, Bounds DEF ClickTab, Act, Typed, TypeOK
    <3>2. active \in Types \cup {NoType} /\ unsaved \in BOOLEAN
          /\ \A q \in requests : q \in Request /\ Written(q)
      BY RequestKinds DEF Typed, TypeOK
    <3>3. OpenType(t, active, requests, acts')
          /\ UNCHANGED <<files, types, editor, shown, stored, doubts, restarts>>
      BY <2>4 DEF ClickTab
    <3>4. /\ active' \in Types \cup {NoType} /\ unsaved' \in BOOLEAN
          /\ \A q \in requests' : q \in Request /\ Written(q)
      BY <3>1, <3>2, <3>3, OpenTypeTyped
    <3> QED  BY <3>1, <3>3, <3>4 DEF Typed, TypeOK, Asked, shown
  <2>5. ASSUME NEW t \in Types, ClickCreate(t) PROVE Typed'
    BY <2>5, Texts, SendTyped DEF ClickCreate, Kinds
  <2>6. ASSUME Restart PROVE Typed'
    BY <2>6, DaemonTyped DEF DaemonStep
  <2>7. ASSUME TimerFires PROVE Typed'
    <3>1. preview' \in Text \cup {NoText} /\ previews' \in Seq(Text) /\ overtaken' \in BOOLEAN
      BY <2>7, UpdatePreviewTyped DEF TimerFires, Typed, TypeOK
    <3>2. UNCHANGED <<files, requests, page, stored, doubts, acts, restarts>> /\ timer' = FALSE
      BY <2>7 DEF TimerFires
    <3> QED  BY <3>1, <3>2 DEF Typed, TypeOK, Asked, page
  <2>8. ASSUME NEW i \in DOMAIN previews, PreviewBack(i) PROVE Typed'
    <3>1. previews \in Seq(Text)
      BY DEF Typed, TypeOK
    <3>2. previews[i] \in Text /\ previews' \in Seq(Text)
      BY <2>8, <3>1, ElementOfSeq, LenProperties, RemovedType DEF PreviewBack
    <3>3. UNCHANGED <<files, requests, page, timer, stored, doubts, acts, restarts>>
          /\ preview' \in Text \cup {NoText} /\ overtaken' \in BOOLEAN
      BY <2>8, <3>2 DEF PreviewBack, Typed, TypeOK
    <3> QED  BY <3>2, <3>3 DEF Typed, TypeOK, Asked, page
  <2>9. ASSUME NEW r \in requests, Serve(r) PROVE Typed'
    BY <2>9, DaemonTyped DEF DaemonStep
  <2>10. ASSUME NEW r \in requests, Fail(r) PROVE Typed'
    BY <2>10, DaemonTyped DEF DaemonStep
  <2>11. ASSUME NEW r \in requests, ListBack(r) PROVE Typed'
    BY <2>11, ListBackTyped
  <2>12. ASSUME NEW r \in requests, GetBack(r) PROVE Typed'
    BY <2>12, GetBackTyped
  <2>13. ASSUME NEW r \in requests, PutBack(r) PROVE Typed'
    BY <2>13, WrittenBackTyped
  <2>14. ASSUME NEW r \in requests, CreateBack(r) PROVE Typed'
    BY <2>14, WrittenBackTyped
  <2>15. ASSUME NEW r \in requests, DeleteBack(r) PROVE Typed'
    BY <2>15, DeleteBackTyped
  <2> QED  BY <1>2, <2>1, <2>2, <2>3, <2>4, <2>5, <2>6, <2>7, <2>8, <2>9, <2>10, <2>11,
              <2>12, <2>13, <2>14, <2>15, Steps
<1> QED  BY <1>1, <1>2

LEMMA InitTyped == Init => Typed
<1> SUFFICES ASSUME Init PROVE Typed
  OBVIOUS
<1>1. \A n \in {-1, 0} : /\ Sent(n, "list", NoType, NoText) \in Request
                         /\ Sent(n, "list", NoType, NoText).kind = "list"
                         /\ Sent(n, "list", NoType, NoText).stage = "sent"
  <2>1. \A n \in {-1, 0} : n \in -1..MaxActs
    BY Bounds
  <2> QED  BY <2>1, SentIs DEF Kinds
<1>2. requests \subseteq Request /\ Asked
  BY <1>1 DEF Init, Asked, Written
<1>3. files \in [Types -> Text \cup {NoText}]
  BY Texts DEF Init
<1>4. <<>> \in Seq(Text) /\ 0 \in 0..MaxActs /\ 0 \in 0..MaxRestarts
  BY EmptySeq, Bounds
<1> QED  BY <1>2, <1>3, <1>4, Texts DEF Init, Typed, TypeOK

LEMMA AlwaysTyped == Spec => []Typed
<1> QED  BY InitTyped, TypedStep, PTL DEF Spec

(***************************************************************************)
(* The types of the state, whatever the user does and whatever fails; the  *)
(* highlighted tab is a type or null (app.js:152-162, 248-260).            *)
(***************************************************************************)
THEOREM Typing == Spec => []TypeOK
<1>1. Typed => TypeOK
  BY DEF Typed
<1> QED  BY <1>1, AlwaysTyped, PTL

-------------------------------------------------------------------------------
(***************************************************************************)
(* The preview.  Any number of texts may be on their way.  While the timer *)
(* is not running and the newest of them has not been overtaken, it is the *)
(* text in the editor: so the preview that comes last is current.          *)
(***************************************************************************)
Newest == previews[Len(previews)]

Drawn == ~timer /\ ~overtaken =>
    /\ previews # <<>> => Newest = editor /\ ~IsBlank(editor)
    /\ previews = <<>> => preview \in OfEditor

\* updatePreview, of the text that is in the editor by then.
LEMMA UpdatesCurrent ==
    ASSUME TypeOK, NEW text \in Text, UpdatePreview(text), editor' = text
    PROVE  Drawn'
<1>1. CASE IsBlank(text)
  BY <1>1 DEF UpdatePreview, Drawn, OfEditor
<1>2. CASE ~IsBlank(text)
  <2>1. previews \in Seq(Text) /\ previews' = Append(previews, text)
    BY <1>2 DEF UpdatePreview, TypeOK
  <2>2. Len(previews') = Len(previews) + 1 /\ previews'[Len(previews) + 1] = text
        /\ Len(previews) \in Nat
    BY <2>1, AppendProperties, LenProperties
  <2>3. previews' # <<>> /\ Newest' = text
    BY <2>1, <2>2, AppendProperties DEF Newest
  <2> QED  BY <1>2, <2>3 DEF Drawn
<1> QED  BY <1>1, <1>2

LEMMA Indices ==
    ASSUME NEW n \in Nat, NEW i \in 1..(n - 1)
    PROVE  /\ i \in 1..n /\ i - 1 \in Nat /\ n - i \in Nat
           /\ n - i \in 1..(n - i) /\ i + 1 + (n - i) - 1 = n
           /\ (i - 1) + (n - i) = n - 1 /\ n - 1 \in 1..(n - 1) /\ n - 1 # 0
           /\ ~(n - 1 <= i - 1) /\ (n - 1) - (i - 1) = n - i
<1> QED  OBVIOUS

\* A rendering that comes before the newest leaves the newest where it is.
LEMMA OlderRemoved ==
    ASSUME TypeOK, NEW i \in DOMAIN previews, i # Len(previews)
    PROVE  LET rest == RemoveAt(previews, i) IN
           rest # <<>> /\ rest[Len(rest)] = Newest
<1>1. previews \in Seq(Text) /\ Len(previews) \in Nat /\ i \in 1..Len(previews)
  BY LenProperties DEF TypeOK
<1> DEFINE n == Len(previews)
           s == SubSeq(previews, 1, i - 1)
           u == SubSeq(previews, i + 1, n)
<1>2. n \in Nat /\ i \in 1..(n - 1)
  BY <1>1
<1>3. s \in Seq(Text) /\ Len(s) = i - 1
  <2>1. \A k \in 1..(i - 1) : previews[k] \in Text
    BY <1>1, ElementOfSeq
  <2> QED  BY <1>1, <1>2, <2>1, SubSeqProperties
<1>4. u \in Seq(Text) /\ Len(u) = n - i /\ u[n - i] = previews[n]
  <2>1. \A k \in (i + 1)..n : previews[k] \in Text
    BY <1>1, ElementOfSeq
  <2>2. u \in Seq(Text) /\ Len(u) = n - i /\ \A k \in 1..(n - i) : u[k] = previews[i + 1 + k - 1]
    BY <1>1, <1>2, <2>1, SubSeqProperties
  <2>3. n - i \in 1..(n - i) /\ i + 1 + (n - i) - 1 = n
    BY <1>2, Indices
  <2> QED  BY <2>2, <2>3
<1>5. RemoveAt(previews, i) = s \o u
  BY DEF RemoveAt
<1> HIDE DEF n, s, u
<1>6. s \o u \in Seq(Text) /\ Len(s \o u) = n - 1 /\ (s \o u)[n - 1] = u[n - i]
  <2>1. s \o u \in Seq(Text) /\ Len(s \o u) = Len(s) + Len(u)
    BY <1>3, <1>4, ConcatProperties
  <2>2. Len(s) + Len(u) = n - 1 /\ n - 1 \in 1..(Len(s) + Len(u))
    BY <1>2, <1>3, <1>4, Indices
  <2>3. (s \o u)[n - 1] = IF n - 1 <= Len(s) THEN s[n - 1] ELSE u[(n - 1) - Len(s)]
    BY <1>3, <1>4, <2>2, ConcatProperties
  <2>4. ~(n - 1 <= Len(s)) /\ (n - 1) - Len(s) = n - i
    BY <1>2, <1>3, Indices
  <2> QED  BY <2>1, <2>2, <2>3, <2>4
<1>7. s \o u # <<>>
  BY <1>2, <1>6, EmptySeq
<1> QED  BY <1>4, <1>5, <1>6, <1>7 DEF Newest, n

\* The newest comes when it is the only one: none is left.
LEMMA LastRemoved ==
    ASSUME TypeOK, NEW i \in DOMAIN previews, i = Len(previews), i <= 1
    PROVE  i = 1 /\ RemoveAt(previews, i) = <<>> /\ previews # <<>> /\ Newest = previews[i]
<1>1. previews \in Seq(Text) /\ Len(previews) \in Nat /\ i \in 1..Len(previews)
  BY LenProperties DEF TypeOK
<1>2. i = 1 /\ Len(previews) = 1
  BY <1>1
<1>3. SubSeq(previews, 1, 0) = <<>> /\ SubSeq(previews, 2, 1) = <<>>
  BY SubSeqEmpty
<1>4. RemoveAt(previews, i) = <<>> \o <<>>
  BY <1>2, <1>3 DEF RemoveAt
<1>5. <<>> \o <<>> = <<>>
  BY EmptySeq, ConcatEmptySeq
<1> QED  BY <1>2, <1>4, <1>5 DEF Newest

LEMMA DrawnStep ==
    ASSUME Typed, Drawn, [Next]_vars
    PROVE  Drawn'
<1>1. CASE UNCHANGED <<editor, shown>>
  BY <1>1 DEF Drawn, Newest, OfEditor, shown
<1>2. CASE Next
  <2>1. ASSUME Type \/ Empty PROVE Drawn'
    BY <2>1 DEF Type, Empty, Drawn
  <2>2. ASSUME ClickSave \/ ClickDelete PROVE Drawn'
    BY <2>2, <1>1 DEF ClickSave, ClickDelete, page
  <2>3. ASSUME NEW t \in Types, ClickTab(t) \/ ClickCreate(t) PROVE Drawn'
    BY <2>3, <1>1 DEF ClickTab, ClickCreate, page
  <2>4. ASSUME DaemonStep PROVE Drawn'
    BY <2>4, <1>1, DaemonMoves DEF page
  <2>5. ASSUME TimerFires PROVE Drawn'
    <3>1. UpdatePreview(editor) /\ editor' = editor /\ editor \in Text /\ TypeOK
      BY <2>5 DEF TimerFires, page, Typed, TypeOK
    <3> QED  BY <3>1, UpdatesCurrent
  <2>6. ASSUME NEW i \in DOMAIN previews, PreviewBack(i) PROVE Drawn'
    <3>1. /\ UNCHANGED <<timer, editor>> /\ preview' \in {previews[i], NoText}
          /\ previews' = RemoveAt(previews, i)
          /\ overtaken' = (overtaken \/ (i = Len(previews) /\ i > 1))
      BY <2>6 DEF PreviewBack, page
    <3>2. TypeOK /\ Len(previews) \in Nat /\ i \in 1..Len(previews)
      BY LenProperties DEF Typed, TypeOK
    <3>3. CASE i # Len(previews)
      <4>1. previews' # <<>> /\ Newest' = Newest /\ previews # <<>>
        BY <3>1, <3>2, <3>3, OlderRemoved DEF Newest
      <4> QED  BY <3>1, <3>3, <4>1 DEF Drawn
    <3>4. CASE i = Len(previews) /\ i <= 1
      <4>1. previews' = <<>> /\ previews # <<>> /\ Newest = previews[i]
        BY <3>1, <3>2, <3>4, LastRemoved
      <4>2. overtaken' = overtaken
        BY <3>1, <3>2, <3>4 DEF Typed, TypeOK
      <4>3. ~timer /\ ~overtaken => previews[i] = editor /\ ~IsBlank(editor)
        BY <4>1 DEF Drawn
      <4> QED  BY <3>1, <4>1, <4>2, <4>3 DEF Drawn, OfEditor
    <3>5. CASE i = Len(previews) /\ i > 1
      BY <3>1, <3>5 DEF Drawn
    <3> QED  BY <3>2, <3>3, <3>4, <3>5
  <2>7. ASSUME NEW r \in requests, ListBack(r) \/ PutBack(r) \/ CreateBack(r) PROVE Drawn'
    BY <2>7, <1>1 DEF ListBack, PutBack, CreateBack, page
  <2>8. ASSUME NEW r \in requests, GetBack(r) PROVE Drawn'
    <3>1. CASE r.stage = "ok"
      <4>1. UpdatePreview(r.text) /\ editor' = r.text /\ TypeOK
        BY <2>8, <3>1 DEF GetBack, SetValue, Typed
      <4>2. r.text \in Text
        BY <2>8, <3>1, RequestKinds DEF GetBack, Back, Written
      <4> QED  BY <4>1, <4>2, UpdatesCurrent
    <3>2. CASE r.stage # "ok"
      BY <2>8, <3>2, <1>1 DEF GetBack
    <3> QED  BY <3>1, <3>2
  <2>9. ASSUME NEW r \in requests, DeleteBack(r) PROVE Drawn'
    <3>1. CASE UNCHANGED <<editor, timer>>
      BY <2>9, <3>1, <1>1 DEF DeleteBack, shown
    <3>2. CASE SetValue(Blank)
      <4>1. editor' = Blank /\ timer' = (timer \/ ~IsBlank(editor)) /\ IsBlank(Blank)
            /\ UNCHANGED <<preview, previews, overtaken>>
        BY <2>9, <3>2 DEF SetValue, DeleteBack, IsBlank, Blank
      <4>2. ASSUME ~timer', ~overtaken' PROVE previews = <<>> /\ preview \in {NoText, Blank}
        BY <4>1, <4>2 DEF Drawn, OfEditor
      <4> QED  BY <4>1, <4>2 DEF Drawn, OfEditor
    <3> QED  BY <2>9, <3>1, <3>2 DEF DeleteBack, page
  <2> QED  BY <1>2, <2>1, <2>2, <2>3, <2>4, <2>5, <2>6, <2>7, <2>8, <2>9, Steps DEF DaemonStep
<1> QED  BY <1>1, <1>2 DEF vars, page

LEMMA InitDrawn == Init => Drawn
<1> QED  BY DEF Init, Drawn, OfEditor, Blank, IsBlank

(***************************************************************************)
(* However many texts are being rendered at a time, for any user, whatever *)
(* fails: when the timer is not running and the last rendering is there,   *)
(* the preview shows the text in the editor, unless the rendering of the   *)
(* newest text came before that of an older one (app.js:211-234).  That an *)
(* answer overtakes another is the only way to a stale preview.            *)
(***************************************************************************)
THEOREM PreviewOfEditor == Spec => []PreviewCurrent
<1>1. Typed /\ Drawn /\ [Next]_vars => Drawn'
  BY DrawnStep
<1>2. Drawn => PreviewCurrent
  BY DEF Drawn, PreviewCurrent, Settled
<1> QED  BY <1>1, <1>2, InitDrawn, AlwaysTyped, PTL DEF Spec

-------------------------------------------------------------------------------
(***************************************************************************)
(* A patient user has one request under way, and the page follows it up by *)
(* one other at a time.  Before the first act there are two, since init is *)
(* called twice, and they only read.                                       *)
(***************************************************************************)
Reading == {"list", "get"}

OneAtATime ==
    /\ \A r, q \in requests : r.act = q.act => r = q
    /\ \A r \in requests : IF acts = 0 THEN r.kind \in Reading ELSE r.act = acts

LEMMA OpenTypeFollows ==
    ASSUME NEW t \in Types, NEW was, NEW others, NEW n \in -1..MaxActs,
           OpenType(t, was, others, n)
    PROVE  \E s \in Request : /\ s.act = n /\ s.kind = "get" /\ s.type = t /\ s.stage = "sent"
                              /\ requests' \subseteq others \cup {s}
<1> DEFINE s == Sent(n, "get", t, NoText)
<1>1. s \in Request /\ s.act = n /\ s.kind = "get" /\ s.type = t /\ s.stage = "sent"
  BY SentIs DEF Kinds
<1>2. requests' \subseteq others \cup {s}
  BY DEF OpenType
<1> HIDE DEF s
<1> QED  BY <1>1, <1>2

\* What the page does when r is back.
LEMMA PageMoves ==
    ASSUME Typed, NEW r \in requests, PageStep(r)
    PROVE  /\ UNCHANGED <<files, acts, restarts>>
           /\ \E s \in Request : /\ s.act = r.act /\ s.kind \in Reading /\ s.stage = "sent"
                                 /\ requests' \subseteq Without(r) \cup {s}
<1>1. r \in Request /\ r.act \in -1..MaxActs
  BY RequestKinds
<1>2. ASSUME requests' = Without(r)
      PROVE  \E s \in Request : /\ s.act = r.act /\ s.kind \in Reading /\ s.stage = "sent"
                                /\ requests' \subseteq Without(r) \cup {s}
  <2> DEFINE s == Sent(r.act, "list", NoType, NoText)
  <2>1. s \in Request /\ s.act = r.act /\ s.kind \in Reading /\ s.stage = "sent"
    BY <1>1, SentIs DEF Kinds, Reading
  <2> HIDE DEF s
  <2> QED  BY <1>2, <2>1
<1>3. CASE ListBack(r)
  <2> DEFINE wanted == IF r.type = NoType THEN types' ELSE {r.type}
  <2>1. wanted \subseteq Types
    <3>1. types' \subseteq Types
      BY <1>1, <1>3 DEF ListBack, Typed, TypeOK, Request
    <3> QED  BY <1>1, <3>1 DEF Request
  <2>2. CASE wanted # {} /\ OpenType(FirstTab(wanted), active, Without(r), r.act)
    <3> HIDE DEF wanted
    <3>1. FirstTab(wanted) \in Types
      BY <2>1, <2>2, FirstTabIs
    <3>2. \E s \in Request : /\ s.act = r.act /\ s.kind = "get" /\ s.type = FirstTab(wanted)
                             /\ s.stage = "sent"
                             /\ requests' \subseteq Without(r) \cup {s}
      BY <1>1, <2>2, <3>1, OpenTypeFollows
    <3> QED  BY <1>3, <3>2 DEF ListBack, Reading
  <2> QED  BY <1>2, <1>3, <2>2 DEF ListBack
<1>4. CASE GetBack(r) \/ PutBack(r)
  BY <1>2, <1>4 DEF GetBack, PutBack
<1>5. CASE CreateBack(r)
  <2> DEFINE s == Sent(r.act, "list", r.type, NoText)
  <2>1. r.type \in Types \cup {NoType}
    BY <1>1 DEF Request
  <2>2. s \in Request /\ s.act = r.act /\ s.kind = "list" /\ s.stage = "sent"
    BY <1>1, <2>1, SentIs DEF Kinds
  <2>3. requests' \subseteq Without(r) \cup {s} /\ UNCHANGED <<files, acts, restarts>>
    BY <1>5 DEF CreateBack
  <2> HIDE DEF s
  <2> QED  BY <2>2, <2>3 DEF Reading
<1>6. CASE DeleteBack(r)
  <2> DEFINE next == FirstTab(types')
  <2>1. types' \subseteq Types
    BY <1>6 DEF DeleteBack, Typed, TypeOK, page
  <2>2. CASE types' # {} /\ OpenType(next, next, Without(r), r.act)
    <3>1. next \in Types
      BY <2>1, <2>2, FirstTabIs
    <3> HIDE DEF next
    <3>2. \E s \in Request : /\ s.act = r.act /\ s.kind = "get" /\ s.type = next
                             /\ s.stage = "sent"
                             /\ requests' \subseteq Without(r) \cup {s}
      BY <1>1, <2>2, <3>1, OpenTypeFollows
    <3> QED  BY <1>6, <3>2 DEF DeleteBack, Reading
  <2> QED  BY <1>2, <1>6, <2>2 DEF DeleteBack
<1> QED  BY <1>3, <1>4, <1>5, <1>6 DEF PageStep

\* What the user does: the request of this act is the only one.
UserActs ==
    /\ acts' = acts + 1 /\ UNCHANGED <<files, restarts>>
    /\ \A r, q \in requests' : r = q
    /\ \A r \in requests' : r.act = acts' /\ r.stage = "sent"

LEMMA PatientUser ==
    ASSUME Patient, Typed, UserStep
    PROVE  requests = {} /\ UserActs
<1>1. Act /\ requests = {}
  BY DEF UserStep, Type, Empty, ClickSave, ClickDelete, ClickTab, ClickCreate, Act
<1>2. acts' = acts + 1 /\ acts' \in -1..MaxActs
  BY <1>1, Bounds DEF Act, Typed, TypeOK
<1>3. UNCHANGED <<files, restarts>>
  BY DEF UserStep, Type, Empty, ClickSave, ClickDelete, ClickTab, ClickCreate
<1>4. ASSUME NEW s, s.act = acts', s.stage = "sent", requests' \subseteq {s}
      PROVE  /\ \A r, q \in requests' : r = q
             /\ \A r \in requests' : r.act = acts' /\ r.stage = "sent"
  BY <1>4
<1>5. ASSUME NEW kind \in Kinds, NEW t \in Types, NEW text \in Text \cup {NoText},
             Send(kind, t, text)
      PROVE  UserActs
  <2> DEFINE s == Sent(acts', kind, t, text)
  <2>1. s.act = acts' /\ s.stage = "sent"
    BY <1>2, SentIs
  <2>2. requests' = {s}
    BY <1>1, <1>5 DEF Send
  <2> HIDE DEF s
  <2> QED  BY <1>2, <1>3, <2>1, <2>2 DEF UserActs
<1>6. CASE Type \/ Empty
  BY <1>1, <1>2, <1>3, <1>6 DEF Type, Empty, UserActs
<1>7. CASE ClickSave
  <2>1. "put" \in Kinds /\ active \in Types /\ editor \in Text \cup {NoText}
        /\ Send("put", active, editor)
    BY <1>7 DEF ClickSave, Kinds, Typed, TypeOK
  <2>2. UserActs
    BY <1>5, <2>1
  <2> QED  BY <1>1, <2>2
<1>8. CASE ClickDelete
  <2>1. "delete" \in Kinds /\ active \in Types /\ NoText \in Text \cup {NoText}
        /\ Send("delete", active, NoText)
    BY <1>8 DEF ClickDelete, Kinds, Typed, TypeOK
  <2>2. UserActs
    BY <1>5, <2>1
  <2> QED  BY <1>1, <2>2
<1>9. ASSUME NEW t \in Types, ClickCreate(t) PROVE UserActs
  BY <1>5, <1>9, Texts DEF ClickCreate, Kinds
<1>10. ASSUME NEW t \in Types, ClickTab(t) PROVE UserActs
  <2>1. \E s \in Request : /\ s.act = acts' /\ s.kind = "get" /\ s.type = t /\ s.stage = "sent"
                           /\ requests' \subseteq requests \cup {s}
    BY <1>2, <1>10, OpenTypeFollows DEF ClickTab
  <2> QED  BY <1>1, <1>2, <1>3, <1>4, <2>1 DEF UserActs
<1> QED  BY <1>1, <1>6, <1>7, <1>8, <1>9, <1>10 DEF UserStep

LEMMA OneAtATimeStep ==
    ASSUME Patient, Typed, OneAtATime, [Next]_vars
    PROVE  OneAtATime'
<1>1. CASE UNCHANGED <<requests, acts>>
  BY <1>1 DEF OneAtATime
<1>2. CASE Next
  <2>1. CASE UserStep
    <3>1. UserActs /\ acts \in Nat
      BY <2>1, PatientUser, Bounds DEF Typed, TypeOK
    <3>2. acts' # 0
      BY <3>1 DEF UserActs
    <3> QED  BY <3>1, <3>2 DEF UserActs, OneAtATime
  <2>2. CASE Restart
    <3> DEFINE new(r) == IF r.stage = "sent" THEN Failed(r) ELSE r
    <3>1. requests' = {new(r) : r \in requests} /\ acts' = acts
      BY <2>2 DEF Restart, Failed
    <3>2. \A r \in requests : new(r).act = r.act /\ new(r).kind = r.kind
      BY FailedIs DEF Failed
    <3> HIDE DEF new
    <3> QED  BY <3>1, <3>2 DEF OneAtATime
  <2>3. ASSUME NEW r \in requests, Serve(r) \/ Fail(r) PROVE OneAtATime'
    <3>1. PICK new : /\ requests' = (requests \ {r}) \cup {new}
                     /\ new = Answer(r) \/ new = Failed(r)
      BY <2>3 DEF Serve, Fail, Failed
    <3>2. new.act = r.act /\ new.kind = r.kind
      BY <3>1, AnswerIs, FailedIs DEF Failed
    <3>3. acts' = acts
      BY <2>3 DEF Serve, Fail
    <3> QED  BY <3>1, <3>2, <3>3 DEF OneAtATime
  <2>4. ASSUME NEW r \in requests, PageStep(r) PROVE OneAtATime'
    <3>1. acts' = acts
      BY <2>4, PageMoves
    <3>2. PICK s \in Request : /\ s.act = r.act /\ s.kind \in Reading
                               /\ requests' \subseteq Without(r) \cup {s}
      BY <2>4, PageMoves
    <3> QED  BY <3>1, <3>2 DEF OneAtATime, Without
  <2>5. CASE TimerFires \/ \E i \in DOMAIN previews : PreviewBack(i)
    BY <2>5, <1>1 DEF TimerFires, PreviewBack
  <2> QED  BY <1>2, <2>1, <2>2, <2>3, <2>4, <2>5 DEF Next
<1> QED  BY <1>1, <1>2 DEF vars

LEMMA InitOneAtATime == Init => OneAtATime
<1> SUFFICES ASSUME Init PROVE OneAtATime
  OBVIOUS
<1>1. \A n \in {-1, 0} : /\ Sent(n, "list", NoType, NoText).act = n
                         /\ Sent(n, "list", NoType, NoText).kind = "list"
  BY DEF Sent
<1> QED  BY <1>1 DEF Init, OneAtATime, Reading

LEMMA AlwaysOneAtATime ==
    ASSUME Patient
    PROVE  Spec => []OneAtATime
<1>1. Typed /\ OneAtATime /\ [Next]_vars => OneAtATime'
  BY OneAtATimeStep
<1> QED  BY <1>1, InitOneAtATime, AlwaysTyped, PTL DEF Spec

-------------------------------------------------------------------------------
(***************************************************************************)
(* What was acknowledged.  While a write is under way nothing is known to  *)
(* be stored under its type; once it is served, what the server read of it *)
(* is in the file, and as it is the only request, that stays there until   *)
(* the page knows.                                                         *)
(***************************************************************************)
Pending ==
    \A r \in requests : r.kind \in Writes =>
        /\ stored[r.type] = NoText
        /\ r.kind # "delete" /\ r.stage = "ok" /\ r.type \notin AtRisk =>
              files[r.type] = Capped(r.text)

Kept == AcknowledgedStays /\ Pending

LEMMA WriteAlone ==
    ASSUME OneAtATime, NEW r \in requests, r.kind \in Writes
    PROVE  requests = {r}
<1>1. acts # 0
  BY DEF OneAtATime, Reading, Writes
<1> QED  BY <1>1 DEF OneAtATime

LEMMA KeptStep ==
    ASSUME Patient, Typed, OneAtATime, Kept, [Next]_vars
    PROVE  Kept'
<1>1. CASE UNCHANGED <<files, requests, stored>>
  BY <1>1 DEF Kept, AcknowledgedStays, Pending, AtRisk
<1>2. CASE Next
  <2>1. CASE UserStep
    <3>1. requests = {} /\ UserActs
      BY <2>1, PatientUser
    <3>2. \A r \in requests' : r.kind \in Writes => stored'[r.type] = NoText
      <4>1. ASSUME NEW kind \in Kinds, NEW t \in Types, NEW text \in Text \cup {NoText},
                   Send(kind, t, text)
            PROVE  \A r \in requests' : stored'[r.type] = NoText
        <5>1. requests' = {Sent(acts', kind, t, text)} /\ Sent(acts', kind, t, text).type = t
          BY <3>1, <4>1 DEF Send, Sent
        <5> QED  BY <4>1, <5>1 DEF Send, Typed, TypeOK
      <4>2. CASE Type \/ Empty
        BY <3>1, <4>2 DEF Type, Empty
      <4>3. CASE ClickSave
        <5>1. "put" \in Kinds /\ active \in Types /\ editor \in Text \cup {NoText}
              /\ Send("put", active, editor)
          BY <4>3 DEF ClickSave, Kinds, Typed, TypeOK
        <5> QED  BY <4>1, <5>1
      <4>4. CASE ClickDelete
        <5>1. "delete" \in Kinds /\ active \in Types /\ NoText \in Text \cup {NoText}
              /\ Send("delete", active, NoText)
          BY <4>4 DEF ClickDelete, Kinds, Typed, TypeOK
        <5> QED  BY <4>1, <5>1
      <4>5. ASSUME NEW t \in Types, ClickCreate(t)
            PROVE  \A r \in requests' : stored'[r.type] = NoText
        BY <4>1, <4>5, Texts DEF ClickCreate, Kinds
      <4>6. ASSUME NEW t \in Types, ClickTab(t)
            PROVE  \A r \in requests' : r.kind \notin Writes
        <5>1. requests' \subseteq {Sent(acts', "get", t, NoText)}
          BY <3>1, <4>6 DEF ClickTab, OpenType
        <5>2. Sent(acts', "get", t, NoText).kind = "get"
          BY DEF Sent
        <5> QED  BY <5>1, <5>2 DEF Writes
      <4> QED  BY <2>1, <4>2, <4>3, <4>4, <4>5, <4>6 DEF UserStep
    <3>3. \A t \in Types : stored'[t] # NoText => stored'[t] = stored[t]
      BY <2>1 DEF UserStep, Type, Empty, ClickSave, ClickDelete, ClickTab, ClickCreate, Send,
                  Typed, TypeOK
    <3>4. files' = files /\ \A r \in requests' : r.stage = "sent"
      BY <3>1 DEF UserActs
    <3> QED  BY <3>2, <3>3, <3>4 DEF Kept, AcknowledgedStays, Pending, AtRisk
  <2>2. CASE Restart
    <3>1. \A t \in Types \ AtRisk : files[t] # NoText => files'[t] = files[t]
      BY <2>2, RestartIs
    <3>2. stored' = stored
      BY <2>2 DEF Restart
    <3>3. AcknowledgedStays'
      <4>1. ASSUME NEW t \in Types \ AtRisk, stored[t] # NoText PROVE files'[t] = Capped(stored[t])
        <5>1. stored[t] \in Text /\ files[t] = Capped(stored[t])
          BY <4>1 DEF Kept, AcknowledgedStays, Typed, TypeOK
        <5>2. Capped(stored[t]) # NoText
          BY <5>1, LeftOfText, NoTextIsNone
        <5> QED  BY <3>1, <5>1, <5>2
      <4> QED  BY <3>2, <4>1 DEF AcknowledgedStays
    <3>4. \A q \in requests' : q \in requests \/ \E r \in requests : q = Failed(r)
      BY <2>2 DEF Restart, Failed
    <3>5. ASSUME NEW q \in requests', q.kind \in Writes
          PROVE  /\ stored'[q.type] = NoText
                 /\ q.kind # "delete" /\ q.stage = "ok" /\ q.type \notin AtRisk =>
                       files'[q.type] = Capped(q.text)
      <4>1. CASE q \in requests
        <5>1. q.kind # "delete" => q.type \in Types /\ Capped(q.text) \in Text
          BY <3>5, <4>1, RequestKinds, LeftOfText DEF Written, Writes
        <5> QED  BY <3>1, <3>2, <3>5, <4>1, <5>1, NoTextIsNone DEF Kept, Pending
      <4>2. ASSUME NEW r \in requests, q = Failed(r)
            PROVE  stored'[q.type] = NoText /\ q.stage = "failed"
        <5>1. q.kind = r.kind /\ q.type = r.type /\ q.stage = "failed"
          BY <4>2, FailedIs DEF Failed
        <5> QED  BY <3>2, <3>5, <5>1 DEF Kept, Pending
      <4> QED  BY <3>4, <4>1, <4>2
    <3>6. Pending'
      BY <3>5 DEF Pending, AtRisk
    <3> QED  BY <3>3, <3>6 DEF Kept
  <2>3. ASSUME NEW r \in requests, Serve(r) \/ Fail(r) PROVE Kept'
    <3>1. PICK new : /\ requests' = (requests \ {r}) \cup {new}
                     /\ \/ new = Answer(r) /\ files' = Effect(r)
                        \/ new = Failed(r)
      BY <2>3 DEF Serve, Fail, Failed
    <3>2. stored' = stored /\ files' \in Outcomes(r)
      BY <2>3 DEF Serve, Fail, Outcomes
    <3>3. CASE r.kind \in Writes
      <4>1. requests' = {new} /\ stored[r.type] = NoText
        BY <3>1, <3>3, WriteAlone DEF Kept, Pending
      <4>2. AcknowledgedStays'
        <5>1. \A t \in Types : t # r.type => files'[t] = files[t]
          BY <3>2, OutcomesAre
        <5> QED  BY <3>2, <4>1, <5>1 DEF Kept, AcknowledgedStays
      <4>3. new.kind = r.kind /\ new.type = r.type
        BY <3>1, AnswerIs, FailedIs DEF Failed
      <4>4. r.kind # "delete" /\ new.stage = "ok" => files'[r.type] = Capped(new.text)
        <5>1. CASE new = Answer(r) /\ files' = Effect(r)
          BY <3>3, <5>1, AnswerIs, EffectIs DEF Writes
        <5>2. CASE new = Failed(r)
          BY <5>2, FailedIs DEF Failed
        <5> QED  BY <3>1, <5>1, <5>2
      <4>5. Pending'
        BY <3>2, <4>1, <4>3, <4>4 DEF Pending, AtRisk
      <4> QED  BY <4>2, <4>5 DEF Kept
    <3>4. CASE r.kind \notin Writes
      <4>1. files' = files
        BY <3>2, <3>4, OutcomesAre
      <4>2. new.kind = r.kind
        BY <3>1, AnswerIs, FailedIs DEF Failed
      <4> QED  BY <3>1, <3>2, <3>4, <4>1, <4>2 DEF Kept, AcknowledgedStays, Pending, AtRisk
    <3> QED  BY <3>3, <3>4
  <2>4. ASSUME NEW r \in requests, PageStep(r) PROVE Kept'
    <3>1. files' = files
      BY <2>4, PageMoves
    <3>2. PICK s \in Request : /\ s.kind \in Reading
                               /\ requests' \subseteq Without(r) \cup {s}
      BY <2>4, PageMoves
    <3>3. CASE stored' = stored
      BY <3>1, <3>2, <3>3 DEF Kept, AcknowledgedStays, Pending, AtRisk, Without, Reading, Writes
    <3>4. CASE stored' # stored
      <4>1. /\ r.kind \in {"put", "create"} /\ r.stage = "ok"
            /\ stored' = [stored EXCEPT ![r.type] = r.text]
        BY <2>4, <3>4 DEF PageStep, ListBack, GetBack, PutBack, CreateBack, DeleteBack, Back
      <4>2. requests = {r} /\ (r.type \notin AtRisk => files[r.type] = Capped(r.text))
        BY <4>1, WriteAlone DEF Kept, Pending, Writes
      <4>3. AcknowledgedStays'
        BY <3>1, <4>1, <4>2 DEF Kept, AcknowledgedStays, AtRisk, Typed, TypeOK
      <4>4. \A q \in requests' : q.kind \notin Writes
        BY <3>2, <4>2 DEF Without, Reading, Writes
      <4> QED  BY <4>3, <4>4 DEF Kept, Pending
    <3> QED  BY <3>3, <3>4
  <2>5. CASE TimerFires \/ \E i \in DOMAIN previews : PreviewBack(i)
    BY <2>5, <1>1 DEF TimerFires, PreviewBack
  <2> QED  BY <1>2, <2>1, <2>2, <2>3, <2>4, <2>5 DEF Next
<1> QED  BY <1>1, <1>2 DEF vars

LEMMA InitKept == Init => Kept
<1> SUFFICES ASSUME Init PROVE Kept
  OBVIOUS
<1>1. \A t \in Types : stored[t] = NoText
  BY DEF Init
<1>2. \A r \in requests : r.kind = "list"
  BY DEF Init, Sent
<1> QED  BY <1>1, <1>2 DEF Kept, AcknowledgedStays, Pending, Writes

LEMMA AlwaysKept ==
    ASSUME Patient
    PROVE  Spec => []Kept
<1>1. Typed /\ OneAtATime /\ Kept /\ [Next]_vars => Kept'
  BY KeptStep
<1>2. Spec => []OneAtATime
  BY AlwaysOneAtATime
<1> QED  BY <1>1, <1>2, InitKept, AlwaysTyped, PTL DEF Spec

(***************************************************************************)
(* For a user who waits, whatever fails or is restarted: of a text whose   *)
(* save was acknowledged, and after which nothing else was asked for its   *)
(* type, what the server read of it is on disk.  It may be less than was   *)
(* saved, and it is not promised of the defaults whose files a start may   *)
(* fail to read (templates.go:46-57, app.go:231-243).                      *)
(***************************************************************************)
THEOREM SavedIsOnDisk ==
    ASSUME Patient
    PROVE  Spec => []AcknowledgedStays
<1>1. Kept => AcknowledgedStays
  BY DEF Kept
<1>2. Spec => []Kept
  BY AlwaysKept
<1> QED  BY <1>1, <1>2, PTL

-------------------------------------------------------------------------------
(***************************************************************************)
(* The tab that is highlighted.  The text that is being fetched is that of *)
(* this tab: before the first act because both calls of init open the same *)
(* one, later because there is one request.                                *)
(***************************************************************************)
Tabs == {t \in Types : files[t] # NoText}

Startup ==
    acts = 0 =>
        /\ \A t \in Defaults : files[t] # NoText
        /\ types \in {{}, Tabs}
        /\ active = IF types = {} THEN NoType ELSE FirstTab(Tabs)
        /\ \A r \in requests : r.kind = "list" =>
              /\ r.type = NoType
              /\ r.stage = "ok" => r.listed = Tabs

GetsOfTab == \A r \in requests : r.kind = "get" => r.type = active

Opening == Startup /\ GetsOfTab

LEMMA OpenTypeCases ==
    ASSUME NEW t \in Types, NEW was, NEW others, NEW n \in -1..MaxActs,
           OpenType(t, was, others, n)
    PROVE  \/ \E s \in Request : /\ s.kind = "get" /\ s.type = t /\ s.stage = "sent"
                                 /\ requests' = others \cup {s}
                                 /\ active' = t /\ unsaved' = FALSE
           \/ /\ unsaved /\ was # NoType
              /\ active' = was /\ unsaved' = unsaved
              /\ requests' = others
<1> DEFINE s == Sent(n, "get", t, NoText)
<1>1. s \in Request /\ s.kind = "get" /\ s.type = t /\ s.stage = "sent"
  BY SentIs DEF Kinds
<1>2. \/ requests' = others \cup {s} /\ active' = t /\ unsaved' = FALSE
      \/ /\ unsaved /\ was # NoType
         /\ active' = was /\ unsaved' = unsaved
         /\ requests' = others
  BY DEF OpenType
<1> HIDE DEF s
<1> QED  BY <1>1, <1>2

LEMMA ClickTabCases ==
    ASSUME Typed, NEW t \in Types, ClickTab(t)
    PROVE  /\ UNCHANGED <<files, editor, doubts>>
           /\ \/ \E s \in Request : /\ s.kind = "get" /\ s.type = t /\ s.stage = "sent"
                                   /\ requests' = requests \cup {s}
                                   /\ active' = t /\ unsaved' = FALSE
              \/ /\ unsaved /\ active # NoType
                 /\ UNCHANGED <<active, unsaved, requests>>
<1>1. acts' \in -1..MaxActs
  BY Bounds DEF ClickTab, Act, Typed, TypeOK
<1>2. OpenType(t, active, requests, acts') /\ UNCHANGED <<files, editor, doubts>>
  BY DEF ClickTab
<1>3. \/ \E s \in Request : /\ s.kind = "get" /\ s.type = t /\ s.stage = "sent"
                            /\ requests' = requests \cup {s}
                            /\ active' = t /\ unsaved' = FALSE
      \/ /\ unsaved /\ active # NoType
         /\ active' = active /\ unsaved' = unsaved
         /\ requests' = requests
  BY <1>1, <1>2, OpenTypeCases
<1> QED  BY <1>2, <1>3

\* What a list that is back does: nothing, or a tab is opened, or the user is
\* asked and says No.
LEMMA ListBackCases ==
    ASSUME Typed, NEW r \in requests, ListBack(r)
    PROVE  /\ UNCHANGED <<files, editor, stored, doubts, acts>>
           /\ types' = IF r.stage = "ok" THEN r.listed ELSE types
           /\ \/ /\ r.type = NoType /\ types' = {}
                 /\ requests' = Without(r) /\ UNCHANGED <<active, unsaved>>
              \/ \E t \in Types, s \in Request :
                    /\ s.kind = "get" /\ s.type = t /\ s.stage = "sent"
                    /\ requests' = Without(r) \cup {s}
                    /\ active' = t /\ unsaved' = FALSE
                    /\ r.type = NoType => types' # {} /\ t = FirstTab(types')
              \/ /\ unsaved /\ active # NoType /\ UNCHANGED <<active, unsaved>>
                 /\ requests' = Without(r)
                 /\ r.type = NoType => types' # {}
<1>1. r \in Request /\ r.act \in -1..MaxActs
  BY RequestKinds
<1>2. /\ UNCHANGED <<files, editor, stored, doubts, acts>>
      /\ types' = IF r.stage = "ok" THEN r.listed ELSE types
  BY DEF ListBack
<1>3. types' \subseteq Types
  BY <1>1, <1>2 DEF Typed, TypeOK, Request
<1> DEFINE wanted == IF r.type = NoType THEN types' ELSE {r.type}
<1>4. CASE wanted = {} /\ requests' = Without(r) /\ UNCHANGED <<active, unsaved>>
  BY <1>2, <1>4
<1>5. CASE wanted # {} /\ OpenType(FirstTab(wanted), active, Without(r), r.act)
  <2> DEFINE t == FirstTab(wanted)
  <2>1. wanted \subseteq Types /\ (r.type = NoType => wanted = types')
    BY <1>1, <1>3 DEF Request
  <2>2. t \in Types /\ OpenType(t, active, Without(r), r.act)
    BY <1>5, <2>1, FirstTabIs
  <2>3. r.type = NoType => types' # {} /\ t = FirstTab(types')
    BY <1>5, <2>1
  <2> HIDE DEF t, wanted
  <2>4. \/ \E s \in Request : /\ s.kind = "get" /\ s.type = t /\ s.stage = "sent"
                              /\ requests' = Without(r) \cup {s}
                              /\ active' = t /\ unsaved' = FALSE
        \/ /\ unsaved /\ active # NoType
           /\ active' = active /\ unsaved' = unsaved
           /\ requests' = Without(r)
    BY <1>1, <2>2, OpenTypeCases
  <2> QED  BY <1>2, <2>2, <2>3, <2>4
<1> QED  BY <1>4, <1>5 DEF ListBack

\* What a deletion that is back does.
LEMMA DeleteBackCases ==
    ASSUME Typed, NEW r \in requests, DeleteBack(r)
    PROVE  /\ UNCHANGED <<files, stored, acts>>
           /\ \/ /\ r.stage = "failed" /\ UNCHANGED page /\ requests' = Without(r)
                 /\ doubts' = doubts \cup {"file"}
              \/ \E t \in Types, s \in Request :
                    /\ s.kind = "get" /\ s.type = t /\ s.stage = "sent"
                    /\ requests' = Without(r) \cup {s}
                    /\ active' = t /\ unsaved' = FALSE /\ UNCHANGED <<editor, doubts>>
              \/ /\ unsaved' = TRUE /\ doubts' = doubts \cup {"editor"}
                 /\ requests' = Without(r)
              \/ /\ active' = NoType /\ requests' = Without(r)
<1>1. UNCHANGED <<files, stored, acts>> /\ r.act \in -1..MaxActs
  BY RequestKinds DEF DeleteBack
<1>2. CASE r.stage = "failed"
  BY <1>1, <1>2 DEF DeleteBack
<1>3. CASE r.stage # "failed"
  <2> DEFINE t == FirstTab(types')
  <2>1. types' \subseteq Types
    BY <1>3 DEF DeleteBack, Typed, TypeOK
  <2>2. CASE /\ types' # {} /\ OpenType(t, t, Without(r), r.act)
             /\ doubts' = (IF unsaved' THEN doubts \cup {"editor"} ELSE doubts)
             /\ UNCHANGED editor
    <3>1. t \in Types /\ OpenType(t, t, Without(r), r.act)
      BY <2>1, <2>2, FirstTabIs
    <3> HIDE DEF t
    <3>2. \/ \E s \in Request : /\ s.kind = "get" /\ s.type = t /\ s.stage = "sent"
                                /\ requests' = Without(r) \cup {s}
                                /\ active' = t /\ unsaved' = FALSE
          \/ /\ unsaved /\ t # NoType
             /\ active' = t /\ unsaved' = unsaved
             /\ requests' = Without(r)
      BY <1>1, <3>1, OpenTypeCases
    <3>3. unsaved \in BOOLEAN
      BY DEF Typed, TypeOK
    <3> QED  BY <1>1, <2>2, <3>1, <3>2, <3>3
  <2>3. CASE types' = {} /\ active' = t /\ requests' = Without(r)
    BY <1>1, <2>3 DEF FirstTab
  <2> QED  BY <1>3, <2>2, <2>3 DEF DeleteBack
<1> QED  BY <1>2, <1>3

\* The daemon drops no request.
LEMMA DaemonKeeps ==
    ASSUME Typed, DaemonStep
    PROVE  \A r \in requests : \E q \in requests' : q.kind = r.kind /\ q.type = r.type
<1>1. CASE Restart
  <2> DEFINE new(r) == IF r.stage = "sent" THEN Failed(r) ELSE r
  <2>1. requests' = {new(r) : r \in requests}
    BY <1>1 DEF Restart, Failed
  <2>2. \A r \in requests : new(r).kind = r.kind /\ new(r).type = r.type
    BY FailedIs DEF Failed
  <2> HIDE DEF new
  <2> QED  BY <2>1, <2>2
<1>2. ASSUME NEW r \in requests, Serve(r) \/ Fail(r)
      PROVE  \A p \in requests : \E q \in requests' : q.kind = p.kind /\ q.type = p.type
  <2>1. PICK new : /\ requests' = (requests \ {r}) \cup {new}
                   /\ new = Answer(r) \/ new = Failed(r)
    BY <1>2 DEF Serve, Fail, Failed
  <2>2. new.kind = r.kind /\ new.type = r.type
    BY <2>1, AnswerIs, FailedIs DEF Failed
  <2> QED  BY <2>1, <2>2
<1> QED  BY <1>1, <1>2 DEF DaemonStep

\* What is answered or fails is of the kind and the type that was asked.
LEMMA DaemonAnswers ==
    ASSUME Typed, DaemonStep
    PROVE  \A q \in requests' : \E r \in requests :
              /\ q.act = r.act /\ q.kind = r.kind /\ q.type = r.type
              /\ r.kind # "get" => q.text = r.text
<1>1. ASSUME NEW r \in requests
      PROVE  \A q \in {r, Answer(r), Failed(r)} :
                /\ q.act = r.act /\ q.kind = r.kind /\ q.type = r.type
                /\ r.kind # "get" => q.text = r.text
  BY AnswerIs, FailedIs DEF Failed
<1> QED  BY <1>1, DaemonMoves

LEMMA StartupDaemon ==
    ASSUME Typed, OneAtATime, Startup, acts = 0, DaemonStep
    PROVE  Startup'
<1>1. UNCHANGED <<types, active, acts>>
  BY DaemonMoves DEF page
<1>2. /\ \A t \in Defaults : files'[t] # NoText
      /\ Tabs' = Tabs
  <2>1. CASE Restart
    <3>1. \A t \in Types : files'[t] \in {files[t], Given(t)} /\ Given(t) # NoText
      BY <2>1, RestartIs, Texts, NoTextIsNone
    <3>2. PICK m \in SUBSET Defaults : files' = Seeded(m)
      BY <2>1 DEF Restart, Missing
    <3>3. \A t \in Types \ Defaults : files'[t] = files[t]
      BY <3>2 DEF Seeded
    <3> QED  BY <3>1, <3>3, Bounds DEF Startup, Tabs
  <2>2. ASSUME NEW r \in requests, Serve(r) \/ Fail(r)
        PROVE  files' = files
    <3>1. r.kind \notin Writes /\ files' \in Outcomes(r)
      BY <2>2 DEF OneAtATime, Reading, Writes, Serve, Fail, Outcomes
    <3> QED  BY <3>1, OutcomesAre
  <2> QED  BY <2>1, <2>2 DEF DaemonStep, Startup, Tabs
<1>3. \A q \in requests' : q.kind = "list" =>
         q.type = NoType /\ (q.stage = "ok" => q.listed = Tabs)
  <2>1. ASSUME NEW r \in requests, r.kind = "list"
        PROVE  /\ r.type = NoType /\ Answer(r).type = NoType /\ Failed(r).type = NoType
               /\ r.stage = "ok" => r.listed = Tabs
               /\ Answer(r).listed = Tabs /\ Failed(r).stage = "failed"
    BY <2>1, AnswerIs, FailedIs DEF Failed, Startup, Tabs
  <2>2. \A q \in requests' : q \in requests \/ \E r \in requests : q = Answer(r) \/ q = Failed(r)
    BY DaemonMoves
  <2>3. \A r \in requests : Answer(r).kind = r.kind /\ Failed(r).kind = r.kind
    BY AnswerIs, FailedIs DEF Failed
  <2> QED  BY <2>1, <2>2, <2>3
<1> QED  BY <1>1, <1>2, <1>3 DEF Startup

LEMMA OpeningStep ==
    ASSUME Patient, Typed, OneAtATime, Opening, [Next]_vars
    PROVE  Opening'
<1>1. CASE UNCHANGED <<files, requests, types, active, acts>>
  BY <1>1 DEF Opening, Startup, GetsOfTab, Tabs
<1>2. CASE UserStep
  <2>1. requests = {} /\ acts' # 0
    BY <1>2, PatientUser, Bounds DEF UserActs, Typed, TypeOK
  <2>2. ASSUME NEW kind, kind # "get", NEW t, NEW text, Send(kind, t, text)
        PROVE  GetsOfTab'
    <3> DEFINE s == Sent(acts', kind, t, text)
    <3>1. s.kind = kind /\ requests' = {s}
      BY <2>1, <2>2 DEF Send, Sent
    <3> HIDE DEF s
    <3> QED  BY <2>2, <3>1 DEF GetsOfTab
  <2>3. ASSUME Type \/ Empty PROVE GetsOfTab'
    BY <2>1, <2>3 DEF Type, Empty, GetsOfTab
  <2>4. ASSUME ClickSave \/ ClickDelete \/ \E t \in Types : ClickCreate(t) PROVE GetsOfTab'
    BY <2>2, <2>4 DEF ClickSave, ClickDelete, ClickCreate
  <2>5. ASSUME NEW t \in Types, ClickTab(t) PROVE GetsOfTab'
    <3>1. CASE UNCHANGED <<requests, active>>
      BY <2>1, <3>1 DEF GetsOfTab
    <3>2. CASE \E s \in Request : s.type = t /\ requests' = requests \cup {s} /\ active' = t
      BY <2>1, <3>2 DEF GetsOfTab
    <3> QED  BY <2>5, <3>1, <3>2, ClickTabCases
  <2> QED  BY <1>2, <2>1, <2>3, <2>4, <2>5 DEF UserStep, Opening, Startup
<1>3. CASE DaemonStep
  <2>1. UNCHANGED <<active, acts>>
    BY <1>3, DaemonMoves DEF page
  <2>2. GetsOfTab'
    BY <1>3, <2>1, DaemonAnswers DEF Opening, GetsOfTab
  <2> QED  BY <1>3, <2>1, <2>2, StartupDaemon DEF Opening, Startup
<1>4. ASSUME NEW r \in requests, ListBack(r) PROVE Opening'
  <2>1. CASE acts = 0
    <3>1. /\ r.type = NoType /\ types' \in {types, Tabs} /\ acts' = acts
          /\ files' = files
      BY <1>4, <2>1, ListBackCases DEF Opening, Startup, ListBack, Back
    <3>2. CASE requests' = Without(r) /\ UNCHANGED active /\ types' = {}
      <4>1. types = {} => active = NoType
        BY <2>1 DEF Opening, Startup
      <4>2. types # {} => types = Tabs /\ types' \in {Tabs}
        BY <2>1, <3>1 DEF Opening, Startup
      <4> QED  BY <2>1, <3>1, <3>2, <4>1, <4>2 DEF Opening, Startup, GetsOfTab, Tabs, Without
    <3>3. ASSUME NEW t \in Types, NEW s \in Request, s.kind = "get", s.type = t,
                 requests' = Without(r) \cup {s}, active' = t, types' # {}, t = FirstTab(types')
          PROVE  Opening'
      <4>1. types' = Tabs /\ types \in {{}, Tabs} /\ Tabs' = Tabs
        BY <2>1, <3>1, <3>3 DEF Opening, Startup, Tabs
      <4>2. \A q \in Without(r) : q.kind = "get" => q.type = active /\ active = t
        <5>1. types = {} => active = NoType /\ active \notin Types
          BY <2>1, Bounds DEF Opening, Startup
        <5>2. \A q \in requests : q.kind = "get" => q.type = active /\ q.type \in Types
          BY RequestKinds DEF Written, Opening, GetsOfTab
        <5>3. types # {} => active = t
          BY <2>1, <3>3, <4>1 DEF Opening, Startup
        <5> QED  BY <5>1, <5>2, <5>3 DEF Without
      <4> QED  BY <2>1, <3>1, <3>3, <4>1, <4>2 DEF Opening, Startup, GetsOfTab, Without
    <3>4. CASE active # NoType /\ UNCHANGED active /\ requests' = Without(r)
      <4>1. types = Tabs /\ types # {} /\ types' = types
        BY <2>1, <3>1, <3>4 DEF Opening, Startup
      <4> QED  BY <2>1, <3>1, <3>4, <4>1 DEF Opening, Startup, GetsOfTab, Tabs, Without
    <3> QED  BY <1>4, <3>1, <3>2, <3>3, <3>4, ListBackCases
  <2>2. CASE acts # 0
    <3>1. Without(r) = {}
      BY <2>2 DEF OneAtATime, Without
    <3>2. acts' = acts
      BY <1>4 DEF ListBack
    <3> QED  BY <1>4, <2>2, <3>1, <3>2, ListBackCases DEF Opening, Startup, GetsOfTab
  <2> QED  BY <2>1, <2>2
<1>5. ASSUME NEW r \in requests, GetBack(r) PROVE Opening'
  BY <1>5 DEF GetBack, Without, Opening, Startup, GetsOfTab, Tabs
<1>6. ASSUME NEW r \in requests, PutBack(r) \/ CreateBack(r) \/ DeleteBack(r) PROVE Opening'
  <2>1. Without(r) = {} /\ acts # 0 /\ acts' = acts
    BY <1>6, WriteAlone
       DEF PutBack, CreateBack, DeleteBack, Back, Writes, Without, OneAtATime, Reading
  <2>2. CASE PutBack(r) \/ CreateBack(r)
    BY <2>1, <2>2 DEF PutBack, CreateBack, Sent, Opening, Startup, GetsOfTab
  <2>3. CASE DeleteBack(r)
    BY <2>1, <2>3, DeleteBackCases DEF Opening, Startup, GetsOfTab
  <2> QED  BY <1>6, <2>2, <2>3
<1>7. CASE TimerFires \/ \E i \in DOMAIN previews : PreviewBack(i)
  BY <1>1, <1>7 DEF TimerFires, PreviewBack, page
<1> QED  BY <1>1, <1>2, <1>3, <1>4, <1>5, <1>6, <1>7
         DEF Next, PageStep, DaemonStep, vars, page

LEMMA InitOpening == Init => Opening
<1> SUFFICES ASSUME Init PROVE Opening
  OBVIOUS
<1>1. \A r \in requests : r.kind = "list" /\ r.type = NoType /\ r.stage = "sent"
  BY DEF Init, Sent
<1>2. \A t \in Defaults : files[t] # NoText
  BY Texts, Bounds, NoTextIsNone DEF Init
<1> QED  BY <1>1, <1>2 DEF Init, Opening, Startup, GetsOfTab

LEMMA AlwaysOpening ==
    ASSUME Patient
    PROVE  Spec => []Opening
<1>1. Typed /\ OneAtATime /\ Opening /\ [Next]_vars => Opening'
  BY OpeningStep
<1>2. Spec => []OneAtATime
  BY AlwaysOneAtATime
<1> QED  BY <1>1, <1>2, InitOpening, AlwaysTyped, PTL DEF Spec

-------------------------------------------------------------------------------
(***************************************************************************)
(* Whose text it is.  A text is written under the type it was written for: *)
(* the text in the editor is that of the highlighted tab, but while the    *)
(* tab's own text is being fetched and when that, or a No, left another    *)
(* tab's text there.                                                       *)
(***************************************************************************)
Fetching == \E r \in requests : r.kind = "get"

EditorOfTab ==
    active # NoType /\ "editor" \notin doubts => editor.of = active \/ Fetching

OwnTexts ==
    \A r \in requests :
        r.kind \in {"put", "create"} \/ (r.kind = "get" /\ r.stage = "ok") => r.text.of = r.type

OfTheirType == FilesOfTheirType /\ EditorOfTab /\ OwnTexts

LEMMA OfTheirTypeUser ==
    ASSUME Patient, Heedful, Typed, OfTheirType, UserStep
    PROVE  OfTheirType'
<1>1. requests = {} /\ files' = files
  BY PatientUser DEF UserActs
<1>2. FilesOfTheirType'
  BY <1>1 DEF OfTheirType, FilesOfTheirType
<1>3. active # NoType /\ "editor" \notin doubts => editor.of = active
  BY <1>1 DEF OfTheirType, EditorOfTab, Fetching
<1>4. CASE Type \/ Empty
  <2>1. requests' = {} /\ UNCHANGED <<active, doubts>> /\ editor'.of \in {active, editor.of}
    BY <1>1, <1>4 DEF Type, Empty
  <2> QED  BY <1>2, <1>3, <2>1 DEF OfTheirType, EditorOfTab, OwnTexts
<1>5. ASSUME NEW kind, NEW t, NEW text, Send(kind, t, text), UNCHANGED <<page, doubts>>,
             kind \in {"put", "create"} => text.of = t, kind # "get"
      PROVE  OfTheirType'
  <2> DEFINE s == Sent(acts', kind, t, text)
  <2>1. s.kind = kind /\ s.type = t /\ s.text = text /\ requests' = {s}
    BY <1>1, <1>5 DEF Send, Sent
  <2> HIDE DEF s
  <2> QED  BY <1>2, <1>3, <1>5, <2>1 DEF OfTheirType, EditorOfTab, OwnTexts, page
<1>6. CASE ClickSave
  <2>1. Send("put", active, editor) /\ UNCHANGED <<page, doubts>> /\ editor.of = active
    BY <1>3, <1>6 DEF ClickSave
  <2> QED  BY <1>5, <2>1
<1>7. CASE ClickDelete
  <2>1. Send("delete", active, NoText) /\ UNCHANGED <<page, doubts>>
    BY <1>7 DEF ClickDelete
  <2> QED  BY <1>5, <2>1
<1>8. ASSUME NEW t \in Types, ClickCreate(t) PROVE OfTheirType'
  <2>1. Send("create", t, Given(t)) /\ UNCHANGED <<page, doubts>> /\ Given(t).of = t
    BY <1>8, Texts DEF ClickCreate
  <2> QED  BY <1>5, <2>1
<1>9. ASSUME NEW t \in Types, ClickTab(t) PROVE OfTheirType'
  <2>1. UNCHANGED <<editor, doubts>>
    BY <1>9, ClickTabCases
  <2>2. CASE UNCHANGED <<requests, active>>
    BY <1>1, <1>2, <1>3, <2>1, <2>2 DEF OfTheirType, EditorOfTab, OwnTexts
  <2>3. CASE \E s \in Request : s.kind = "get" /\ s.stage = "sent" /\ requests' = requests \cup {s}
    BY <1>1, <1>2, <2>3 DEF OfTheirType, EditorOfTab, OwnTexts, Fetching
  <2> QED  BY <1>9, <2>2, <2>3, ClickTabCases
<1> QED  BY <1>4, <1>6, <1>7, <1>8, <1>9 DEF UserStep

LEMMA OfTheirTypeDaemon ==
    ASSUME Typed, OfTheirType, DaemonStep
    PROVE  OfTheirType'
<1>1. UNCHANGED <<active, editor, doubts>>
  BY DaemonMoves DEF page
<1>2. EditorOfTab'
  BY <1>1, DaemonKeeps DEF OfTheirType, EditorOfTab, Fetching
<1>3. FilesOfTheirType'
  <2>1. CASE Restart
    BY <2>1, RestartIs, Texts DEF OfTheirType, FilesOfTheirType
  <2>2. ASSUME NEW r \in requests, Serve(r) \/ Fail(r) PROVE FilesOfTheirType'
    <3>1. files' \in Outcomes(r)
      BY <2>2 DEF Serve, Fail, Outcomes
    <3>2. r.kind \in {"put", "create"} => r.text.of = r.type
      BY DEF OfTheirType, OwnTexts
    <3> QED  BY <3>1, <3>2, OutcomesAre DEF OfTheirType, FilesOfTheirType, Writes
  <2> QED  BY <2>1, <2>2 DEF DaemonStep
<1>4. OwnTexts'
  <2>1. ASSUME NEW r \in requests, r.kind = "get", Answer(r).stage = "ok"
        PROVE  Answer(r).text.of = r.type
    <3>1. r.type \in Types
      BY <2>1, RequestKinds DEF Written
    <3> QED  BY <2>1, <3>1, AnswerIs DEF OfTheirType, FilesOfTheirType
  <2>2. ASSUME NEW r \in requests
        PROVE  /\ Answer(r).kind = r.kind /\ Answer(r).type = r.type
               /\ r.kind # "get" => Answer(r).text = r.text
               /\ Failed(r).kind = r.kind /\ Failed(r).type = r.type /\ Failed(r).text = r.text
               /\ Failed(r).stage = "failed"
    BY AnswerIs, FailedIs DEF Failed
  <2>3. \A q \in requests' : q \in requests \/ \E r \in requests : q = Answer(r) \/ q = Failed(r)
    BY DaemonMoves
  <2> QED  BY <2>1, <2>2, <2>3 DEF OfTheirType, OwnTexts
<1> QED  BY <1>2, <1>3, <1>4 DEF OfTheirType

LEMMA OfTheirTypePage ==
    ASSUME Typed, Opening, OfTheirType, NEW r \in requests, PageStep(r)
    PROVE  OfTheirType'
<1>1. FilesOfTheirType'
  BY PageMoves DEF OfTheirType, FilesOfTheirType
<1>2. ASSUME UNCHANGED <<active, editor>>, r.kind # "get",
             "editor" \in doubts => "editor" \in doubts',
             NEW s, s.kind = "list", requests' \subseteq Without(r) \cup {s},
             Without(r) \subseteq requests'
      PROVE  OfTheirType'
  BY <1>1, <1>2 DEF OfTheirType, EditorOfTab, Fetching, OwnTexts, Without
<1>3. ASSUME NEW s \in Request, s.kind = "get", s.stage = "sent",
             requests' = Without(r) \cup {s}
      PROVE  OfTheirType'
  BY <1>1, <1>3 DEF OfTheirType, EditorOfTab, Fetching, OwnTexts, Without
<1>4. ASSUME requests' = Without(r), active' = NoType \/ "editor" \in doubts'
      PROVE  OfTheirType'
  BY <1>1, <1>4 DEF OfTheirType, EditorOfTab, OwnTexts, Without
<1>5. CASE PutBack(r) \/ CreateBack(r)
  <2> DEFINE s == Sent(r.act, "list", r.type, NoText)
  <2>1. s.kind = "list"
    BY DEF Sent
  <2>2. requests' \subseteq Without(r) \cup {s} /\ Without(r) \subseteq requests'
        /\ UNCHANGED <<active, editor>> /\ r.kind # "get"
        /\ ("editor" \in doubts => "editor" \in doubts')
    BY <1>5 DEF PutBack, CreateBack, Back, page, DoubtsAfterPut
  <2> HIDE DEF s
  <2> QED  BY <1>2, <2>1, <2>2
<1>6. CASE GetBack(r)
  <2>1. r.kind = "get" /\ r.type = active /\ active' = active /\ requests' = Without(r)
    BY <1>6 DEF GetBack, Back, Opening, GetsOfTab
  <2>2. CASE r.stage = "ok"
    <3>1. editor' = r.text /\ r.text.of = r.type
      BY <1>6, <2>1, <2>2 DEF GetBack, SetValue, OfTheirType, OwnTexts
    <3> QED  BY <1>1, <2>1, <3>1 DEF OfTheirType, EditorOfTab, OwnTexts, Without
  <2>3. CASE r.stage # "ok"
    <3>1. "editor" \in doubts'
      BY <1>6, <2>3 DEF GetBack
    <3> QED  BY <1>4, <2>1, <3>1
  <2> QED  BY <2>2, <2>3
<1>7. CASE ListBack(r)
  <2>1. r.kind # "get" /\ UNCHANGED <<editor, doubts>>
    BY <1>7, ListBackCases DEF ListBack, Back
  <2>2. CASE requests' = Without(r) /\ UNCHANGED active
    BY <1>1, <2>1, <2>2 DEF OfTheirType, EditorOfTab, Fetching, OwnTexts, Without
  <2> QED  BY <1>3, <1>7, <2>2, ListBackCases
<1>8. CASE DeleteBack(r)
  <2>1. r.kind # "get"
    BY <1>8 DEF DeleteBack, Back
  <2>2. CASE UNCHANGED page /\ requests' = Without(r) /\ doubts' = doubts \cup {"file"}
    BY <1>1, <2>1, <2>2 DEF OfTheirType, EditorOfTab, Fetching, OwnTexts, Without, page
  <2> QED  BY <1>3, <1>4, <1>8, <2>2, DeleteBackCases
<1> QED  BY <1>5, <1>6, <1>7, <1>8 DEF PageStep

LEMMA OfTheirTypeStep ==
    ASSUME Patient, Heedful, Typed, Opening, OfTheirType, [Next]_vars
    PROVE  OfTheirType'
<1>1. CASE UNCHANGED <<files, requests, active, editor, doubts>>
  BY <1>1 DEF OfTheirType, FilesOfTheirType, EditorOfTab, OwnTexts, Fetching
<1>2. CASE UserStep
  BY <1>2, OfTheirTypeUser
<1>3. CASE DaemonStep
  BY <1>3, OfTheirTypeDaemon
<1>4. ASSUME NEW r \in requests, PageStep(r) PROVE OfTheirType'
  BY <1>4, OfTheirTypePage
<1>5. CASE TimerFires \/ \E i \in DOMAIN previews : PreviewBack(i)
  BY <1>1, <1>5 DEF TimerFires, PreviewBack, page
<1> QED  BY <1>1, <1>2, <1>3, <1>4, <1>5 DEF Next, DaemonStep, vars, page

LEMMA InitOfTheirType == Init => OfTheirType
<1> SUFFICES ASSUME Init PROVE OfTheirType
  OBVIOUS
<1>1. \A r \in requests : r.kind = "list"
  BY DEF Init, Sent
<1>2. FilesOfTheirType
  BY Texts DEF Init, FilesOfTheirType
<1> QED  BY <1>1, <1>2 DEF Init, OfTheirType, EditorOfTab, OwnTexts

(***************************************************************************)
(* For a user who waits, and who does not save after a load failed or a No *)
(* left another tab's text in the editor: a type's file holds a text that  *)
(* was written for that type, whatever fails, however far a write got, and *)
(* whatever a start cannot read (store.go:11-13, 37-43; app.js:195-209,    *)
(* 236-260; README.md:46).  The code does not keep any other user from it. *)
(***************************************************************************)
THEOREM OwnFiles ==
    ASSUME Patient, Heedful
    PROVE  Spec => []FilesOfTheirType
<1>1. Typed /\ Opening /\ OfTheirType /\ [Next]_vars => OfTheirType'
  BY OfTheirTypeStep
<1>2. OfTheirType => FilesOfTheirType
  BY DEF OfTheirType
<1>3. Spec => []Opening
  BY AlwaysOpening
<1> QED  BY <1>1, <1>2, <1>3, InitOfTheirType, AlwaysTyped, PTL DEF Spec

-------------------------------------------------------------------------------
(***************************************************************************)
(* What is marked unsaved.  A save carries the text in the editor, and a   *)
(* load the text of its file, until the page knows; no file is longer than *)
(* what the server reads, so a text that was loaded would be stored as it  *)
(* is.                                                                     *)
(***************************************************************************)
FilesFit == \A t \in Types : files[t] = NoText \/ files[t].size # "long"

Carried ==
    \A r \in requests :
        /\ r.kind = "put" => r.type = active /\ r.text = editor
        /\ r.kind = "get" /\ r.stage = "ok" /\ r.type \notin AtRisk => r.text = files[r.type]

\* Only init asks for the list without a type to open.
ListsAtStart == \A r \in requests : r.kind = "list" /\ r.type = NoType => acts = 0

Marked == FilesFit /\ Carried /\ ListsAtStart /\ UnsavedMarked

\* What a write leaves fits.
LEMMA WhatFits ==
    ASSUME NEW x \in Text
    PROVE  /\ x.size # "long" => Capped(x) = x
           /\ Capped(x).size # "long"
           /\ \A y \in Torn(x) : y.size # "long"
<1>1. CASE x = Blank
  BY <1>1 DEF Blank, Capped, Torn, IsBlank
<1>2. CASE x \in [of : Types, v : -1..MaxActs, size : {"short", "long", "cut"}]
  <2>1. [x EXCEPT !.size = "cut"].size = "cut"
        /\ [of |-> x.of, v |-> -1, size |-> "short"].size = "short"
    BY <1>2
  <2> QED  BY <1>2, <2>1 DEF Capped, Torn
<1> QED  BY <1>1, <1>2 DEF Text

LEMMA FilesFitStep ==
    ASSUME Typed, FilesFit, [Next]_vars
    PROVE  FilesFit'
<1>1. CASE UNCHANGED files
  BY <1>1 DEF FilesFit
<1>2. CASE Restart
  <2>1. \A t \in Types : files'[t] \in {files[t], Given(t)} /\ Given(t).size = "short"
    BY <1>2, RestartIs DEF Given
  <2> QED  BY <2>1 DEF FilesFit
<1>3. ASSUME NEW r \in requests, Serve(r) \/ Fail(r) PROVE FilesFit'
  <2>1. files' \in Outcomes(r) /\ files \in [Types -> Text \cup {NoText}] /\ Written(r)
    BY <1>3, RequestKinds DEF Serve, Fail, Outcomes, Typed, TypeOK
  <2>2. ASSUME NEW t \in Types, NEW x, x = NoText \/ x.size # "long",
               files' = [files EXCEPT ![t] = x]
        PROVE  FilesFit'
    BY <2>1, <2>2 DEF FilesFit
  <2>3. CASE files' = Effect(r)
    <3>1. r.kind \in {"put", "create"} => r.type \in Types /\ Capped(r.text).size # "long"
      BY <2>1, WhatFits DEF Written
    <3>2. r.kind = "delete" => r.type \in Types
      BY <2>1 DEF Written
    <3> QED  BY <1>1, <2>2, <2>3, <3>1, <3>2 DEF Effect
  <2>4. CASE files' \in HalfDone(r)
    <3>1. r.kind \in {"put", "create"}
      BY <2>4 DEF HalfDone
    <3>2. r.type \in Types /\ r.text \in Text
      BY <2>1, <3>1 DEF Written
    <3>3. PICK x \in Torn(r.text) : files' = [files EXCEPT ![r.type] = x]
      BY <2>4, <3>1 DEF HalfDone
    <3> QED  BY <2>2, <3>2, <3>3, WhatFits
  <2> QED  BY <1>1, <2>1, <2>3, <2>4 DEF Outcomes
<1>4. ASSUME NEW r \in requests, PageStep(r) PROVE FilesFit'
  BY <1>1, <1>4, PageMoves
<1>5. CASE UserStep
  BY <1>1, <1>5 DEF UserStep, Type, Empty, ClickSave, ClickDelete, ClickTab, ClickCreate
<1>6. CASE TimerFires \/ \E i \in DOMAIN previews : PreviewBack(i)
  BY <1>1, <1>6 DEF TimerFires, PreviewBack
<1> QED  BY <1>1, <1>2, <1>3, <1>4, <1>5, <1>6 DEF Next, vars

LEMMA ListsAtStartStep ==
    ASSUME Patient, Typed, ListsAtStart, [Next]_vars
    PROVE  ListsAtStart'
<1>1. CASE UNCHANGED <<requests, acts>>
  BY <1>1 DEF ListsAtStart
<1>2. CASE UserStep
  <2>1. requests = {}
    BY <1>2, PatientUser
  <2>2. ASSUME NEW kind, NEW t, NEW text, Send(kind, t, text), kind # "list"
        PROVE  \A r \in requests' : r.kind # "list"
    BY <2>1, <2>2 DEF Send, Sent
  <2>3. ASSUME ClickSave \/ ClickDelete \/ \E t \in Types : ClickCreate(t)
        PROVE  \A r \in requests' : r.kind # "list"
    BY <2>2, <2>3 DEF ClickSave, ClickDelete, ClickCreate
  <2>4. ASSUME Type \/ Empty PROVE requests' = {}
    BY <2>1, <2>4 DEF Type, Empty
  <2>5. ASSUME NEW t \in Types, ClickTab(t) PROVE \A r \in requests' : r.kind # "list"
    <3>1. CASE requests' = requests
      BY <2>1, <3>1
    <3>2. CASE \E s \in Request : s.kind = "get" /\ requests' = requests \cup {s}
      BY <2>1, <3>2
    <3> QED  BY <2>5, <3>1, <3>2, ClickTabCases
  <2> QED  BY <1>2, <2>3, <2>4, <2>5 DEF UserStep, ListsAtStart
<1>3. CASE DaemonStep
  BY <1>3, DaemonMoves, DaemonAnswers DEF ListsAtStart
<1>4. ASSUME NEW r \in requests, PageStep(r) PROVE ListsAtStart'
  <2>1. acts' = acts
    BY <1>4, PageMoves
  <2>2. ASSUME NEW s, s.kind = "list" => s.type # NoType, requests' \subseteq Without(r) \cup {s}
        PROVE  ListsAtStart'
    BY <2>1, <2>2 DEF ListsAtStart, Without
  <2>3. CASE requests' = Without(r)
    BY <2>1, <2>3 DEF ListsAtStart, Without
  <2>4. CASE CreateBack(r)
    <3> DEFINE s == Sent(r.act, "list", r.type, NoText)
    <3>1. r.type \in Types
      BY <2>4, RequestKinds DEF CreateBack, Back, Written
    <3>2. s.type # NoType /\ requests' \subseteq Without(r) \cup {s}
      BY <2>4, <3>1, Bounds DEF CreateBack, Sent
    <3> HIDE DEF s
    <3> QED  BY <2>2, <3>2
  <2>5. CASE PutBack(r) \/ GetBack(r)
    BY <2>3, <2>5 DEF PutBack, GetBack
  <2>6. CASE \E s \in Request : s.kind = "get" /\ requests' = Without(r) \cup {s}
    BY <2>2, <2>6
  <2>7. CASE ListBack(r)
    BY <2>3, <2>6, <2>7, ListBackCases
  <2>8. CASE DeleteBack(r)
    BY <2>3, <2>6, <2>8, DeleteBackCases
  <2> QED  BY <1>4, <2>4, <2>5, <2>7, <2>8 DEF PageStep
<1>5. CASE TimerFires \/ \E i \in DOMAIN previews : PreviewBack(i)
  BY <1>1, <1>5 DEF TimerFires, PreviewBack
<1> QED  BY <1>1, <1>2, <1>3, <1>4, <1>5 DEF Next, DaemonStep, vars

LEMMA CarriedUser ==
    ASSUME Patient, Typed, UserStep
    PROVE  Carried'
<1>1. requests = {} /\ \A r \in requests' : r.stage = "sent"
  BY PatientUser DEF UserActs
<1>2. \A r \in requests' : r.kind = "put" => r.type = active' /\ r.text = editor'
  <2>1. ASSUME NEW kind, NEW t, NEW text, Send(kind, t, text), UNCHANGED page,
               kind = "put" => t = active /\ text = editor
        PROVE  \A r \in requests' : r.kind = "put" => r.type = active' /\ r.text = editor'
    BY <1>1, <2>1 DEF Send, Sent, page
  <2>2. ASSUME ClickSave \/ ClickDelete \/ \E t \in Types : ClickCreate(t)
        PROVE  \A r \in requests' : r.kind = "put" => r.type = active' /\ r.text = editor'
    BY <2>1, <2>2 DEF ClickSave, ClickDelete, ClickCreate
  <2>3. ASSUME Type \/ Empty PROVE requests' = {}
    BY <1>1, <2>3 DEF Type, Empty
  <2>4. ASSUME NEW t \in Types, ClickTab(t) PROVE \A r \in requests' : r.kind = "get"
    <3>1. CASE requests' = requests
      BY <1>1, <3>1
    <3>2. CASE \E s \in Request : s.kind = "get" /\ requests' = requests \cup {s}
      BY <1>1, <3>2
    <3> QED  BY <2>4, <3>1, <3>2, ClickTabCases
  <2> QED  BY <2>2, <2>3, <2>4 DEF UserStep
<1> QED  BY <1>1, <1>2 DEF Carried, AtRisk

LEMMA CarriedDaemon ==
    ASSUME Typed, OneAtATime, Carried, DaemonStep
    PROVE  Carried'
<1>1. UNCHANGED <<active, editor>>
  BY DaemonMoves DEF page
<1>2. \A q \in requests' : q.kind = "put" => q.type = active /\ q.text = editor
  BY DaemonAnswers DEF Carried
<1>3. CASE Restart
  <2>1. \A q \in requests' : q \in requests \/ \E r \in requests : q = Failed(r)
    BY <1>3 DEF Restart, Failed
  <2>2. \A r \in requests : Failed(r).stage = "failed"
    BY FailedIs DEF Failed
  <2>3. ASSUME NEW q \in requests', q.kind = "get", q.stage = "ok", q.type \notin AtRisk
        PROVE  q.text = files'[q.type]
    <3>1. q \in requests /\ q.type \in Types /\ q.text \in Text /\ q.text = files[q.type]
      BY <2>1, <2>2, <2>3, RequestKinds DEF Written, Carried
    <3>2. files'[q.type] = files[q.type]
      BY <1>3, <2>3, <3>1, RestartIs, NoTextIsNone
    <3> QED  BY <3>1, <3>2
  <2> QED  BY <1>1, <1>2, <2>3 DEF Carried, AtRisk
<1>4. ASSUME NEW r \in requests, Serve(r) \/ Fail(r) PROVE Carried'
  <2>1. PICK new : /\ requests' = (requests \ {r}) \cup {new}
                   /\ new = Answer(r) \/ new = Failed(r)
    BY <1>4 DEF Serve, Fail, Failed
  <2>2. new.kind = r.kind /\ new.type = r.type
    BY <2>1, AnswerIs, FailedIs DEF Failed
  <2>3. CASE r.kind \in Writes
    <3>1. requests' = {new} /\ new.kind # "get"
      BY <2>1, <2>2, <2>3, WriteAlone DEF Writes
    <3> QED  BY <1>1, <1>2, <3>1 DEF Carried
  <2>4. CASE r.kind \notin Writes
    <3>1. files' \in Outcomes(r)
      BY <1>4 DEF Serve, Fail, Outcomes
    <3>2. files' = files
      BY <2>4, <3>1, OutcomesAre
    <3>3. new.kind = "get" /\ new.stage = "ok" => new.text = files[new.type]
      BY <2>1, <2>2, AnswerIs, FailedIs DEF Failed
    <3> QED  BY <1>1, <1>2, <2>1, <3>2, <3>3 DEF Carried, AtRisk
  <2> QED  BY <2>3, <2>4
<1> QED  BY <1>3, <1>4 DEF DaemonStep

LEMMA MarkedUser ==
    ASSUME Patient, Typed, UnsavedMarked, UserStep
    PROVE  UnsavedMarked'
<1>1. requests = {} /\ files' = files
  BY PatientUser DEF UserActs
<1>2. CASE Type \/ Empty
  BY <1>2 DEF Type, Empty, UnsavedMarked
<1>3. CASE ClickSave \/ ClickDelete \/ \E t \in Types : ClickCreate(t)
  BY <1>3 DEF ClickSave, ClickDelete, ClickCreate, Send, UnsavedMarked
<1>4. ASSUME NEW t \in Types, ClickTab(t) PROVE UnsavedMarked'
  BY <1>4, ClickTabCases DEF UnsavedMarked
<1> QED  BY <1>2, <1>3, <1>4 DEF UserStep

LEMMA MarkedDaemon ==
    ASSUME Typed, UnsavedMarked, DaemonStep
    PROVE  UnsavedMarked'
<1>1. UNCHANGED <<active, editor, unsaved, doubts>>
  BY DaemonMoves DEF page
<1>2. CASE requests' = {} /\ active \in Types \ AtRisk
  <2>1. requests = {}
    BY <1>2, DaemonKeeps
  <2>2. Restart
    BY <2>1 DEF DaemonStep
  <2>3. CASE files[active] = NoText
    <3>1. Capped(editor) # NoText
      BY LeftOfText, NoTextIsNone DEF Typed, TypeOK
    <3>2. doubts # {} \/ unsaved
      BY <1>2, <2>1, <2>3, <3>1, Bounds DEF UnsavedMarked
    <3> QED  BY <1>1, <3>2 DEF UnsavedMarked
  <2>4. CASE files[active] # NoText
    <3>1. files'[active] = files[active]
      BY <1>2, <2>2, <2>4, RestartIs
    <3> QED  BY <1>1, <1>2, <2>1, <3>1 DEF UnsavedMarked, AtRisk
  <2> QED  BY <2>3, <2>4
<1>3. CASE ~(requests' = {} /\ active \in Types \ AtRisk)
  BY <1>1, <1>3 DEF UnsavedMarked, AtRisk, Typed, TypeOK
<1> QED  BY <1>2, <1>3

LEMMA MarkedPage ==
    ASSUME Typed, OneAtATime, Kept, Opening, Opening', Marked, NEW r \in requests, PageStep(r)
    PROVE  Carried' /\ UnsavedMarked'
<1>1. UNCHANGED files /\ r \in Request
  BY PageMoves, RequestKinds
<1>2. \A q \in Without(r) : q.kind # "put"
  BY WriteAlone DEF Without, Writes
<1>3. Carried'
  <2>1. PICK s \in Request : /\ s.kind \in Reading /\ s.stage = "sent"
                             /\ requests' \subseteq Without(r) \cup {s}
    BY PageMoves
  <2> QED  BY <1>1, <1>2, <2>1 DEF Marked, Carried, Without, AtRisk, Reading
<1> SUFFICES UnsavedMarked'
  BY <1>3
<1>4. ASSUME requests' # {} \/ unsaved' = TRUE \/ active' = NoType \/ doubts' # {}
      PROVE  UnsavedMarked'
  BY <1>4 DEF UnsavedMarked
<1>5. CASE PutBack(r)
  <2>1. UNCHANGED <<active, editor>> /\ r.kind = "put" /\ r.stage \in {"ok", "failed"}
    BY <1>5 DEF PutBack, Back
  <2>2. CASE r.stage = "ok"
    <3>1. r.type = active /\ r.text = editor
      BY <2>1 DEF Marked, Carried
    <3>2. active \notin AtRisk => files[active] = Capped(editor)
      BY <2>1, <2>2, <3>1 DEF Kept, Pending, Writes
    <3> QED  BY <1>1, <2>1, <3>2 DEF UnsavedMarked, AtRisk
  <2>3. CASE r.stage = "failed"
    <3>1. unsaved' = TRUE \/ doubts' # {}
      BY <1>5, <2>3 DEF PutBack, DoubtsAfterPut, Typed, TypeOK
    <3> QED  BY <1>4, <3>1
  <2> QED  BY <2>1, <2>2, <2>3
<1>6. CASE CreateBack(r)
  BY <1>4, <1>6 DEF CreateBack
<1>7. CASE GetBack(r)
  <2>1. r.kind = "get" /\ r.type = active /\ active' = active
    BY <1>7 DEF GetBack, Back, Opening, GetsOfTab
  <2>2. CASE r.stage = "ok"
    <3>1. editor' = r.text /\ r.text \in Text /\ r.type \in Types
      BY <1>7, <2>1, <2>2, RequestKinds DEF GetBack, SetValue, Written
    <3>2. active \notin AtRisk => r.text = files[active]
      BY <2>1, <2>2 DEF Marked, Carried
    <3>3. r.text # NoText /\ (r.text.size # "long" => Capped(r.text) = r.text)
      BY <3>1, NoTextIsNone, WhatFits
    <3>4. active \notin AtRisk => files'[active'] = Capped(editor')
      BY <1>1, <2>1, <3>1, <3>2, <3>3 DEF Marked, FilesFit
    <3> QED  BY <2>1, <3>4 DEF UnsavedMarked, AtRisk
  <2>3. CASE r.stage # "ok"
    BY <1>4, <1>7, <2>3 DEF GetBack
  <2> QED  BY <2>2, <2>3
<1>8. CASE ListBack(r)
  <2>1. CASE /\ r.type = NoType /\ types' = {} /\ UNCHANGED <<active, unsaved>>
    <3>1. acts' = 0
      BY <1>8, <2>1, ListBackCases DEF Marked, ListsAtStart, ListBack, Back
    <3>2. active' = NoType
      BY <2>1, <3>1 DEF Opening, Startup
    <3> QED  BY <1>4, <3>2
  <2>2. CASE unsaved /\ unsaved' = unsaved
    BY <1>4, <2>2
  <2>3. CASE \E s \in Request : requests' = Without(r) \cup {s}
    BY <1>4, <2>3
  <2> QED  BY <1>8, <2>1, <2>2, <2>3, ListBackCases
<1>9. CASE DeleteBack(r)
  BY <1>4, <1>9, DeleteBackCases
<1> QED  BY <1>5, <1>6, <1>7, <1>8, <1>9 DEF PageStep

LEMMA MarkedStep ==
    ASSUME Patient, Typed, OneAtATime, Kept, Opening, Opening', Marked, [Next]_vars
    PROVE  Marked'
<1>1. FilesFit' /\ ListsAtStart'
  BY FilesFitStep, ListsAtStartStep DEF Marked
<1>2. Carried' /\ UnsavedMarked'
  <2>1. CASE UNCHANGED <<files, requests, page, doubts>>
    BY <2>1 DEF Marked, Carried, UnsavedMarked, AtRisk, page
  <2>2. CASE UserStep
    BY <2>2, CarriedUser, MarkedUser DEF Marked
  <2>3. CASE DaemonStep
    BY <2>3, CarriedDaemon, MarkedDaemon DEF Marked
  <2>4. ASSUME NEW r \in requests, PageStep(r) PROVE Carried' /\ UnsavedMarked'
    BY <2>4, MarkedPage
  <2>5. CASE TimerFires \/ \E i \in DOMAIN previews : PreviewBack(i)
    BY <2>1, <2>5 DEF TimerFires, PreviewBack
  <2> QED  BY <2>1, <2>2, <2>3, <2>4, <2>5 DEF Next, DaemonStep, vars
<1> QED  BY <1>1, <1>2 DEF Marked

LEMMA InitMarked == Init => Marked
<1> SUFFICES ASSUME Init PROVE Marked
  OBVIOUS
<1>1. \A r \in requests : r.kind = "list"
  BY DEF Init, Sent
<1>2. FilesFit
  BY DEF Init, FilesFit, Given
<1> QED  BY <1>1, <1>2 DEF Init, Marked, Carried, ListsAtStart, UnsavedMarked

(***************************************************************************)
(* For a user who waits, whatever fails and however far a write got: when  *)
(* nothing is under way and nothing is in doubt since the last load, a     *)
(* text in the editor that the server would not store as what the file of  *)
(* its tab is, is marked unsaved, so the page asks before it discards it   *)
(* (app.js:180-183, 199, 236-246; index.html:250).  It is not promised of  *)
(* the defaults whose files a start may fail to read, nor that a text      *)
(* longer than what the server reads is all in the file when it is not     *)
(* marked (templates.go:46-57, app.go:231-243).                            *)
(***************************************************************************)
THEOREM NothingLostUnasked ==
    ASSUME Patient
    PROVE  Spec => []UnsavedMarked
<1>1. Typed /\ OneAtATime /\ Kept /\ Opening /\ Opening' /\ Marked /\ [Next]_vars => Marked'
  BY MarkedStep
<1>2. Marked => UnsavedMarked
  BY DEF Marked
<1>3. Spec => []OneAtATime /\ []Kept /\ []Opening
  BY AlwaysOneAtATime, AlwaysKept, AlwaysOpening
<1> QED  BY <1>1, <1>2, <1>3, InitMarked, AlwaysTyped, PTL DEF Spec
===============================================================================
