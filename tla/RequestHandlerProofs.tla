------------------------ MODULE RequestHandlerProofs ------------------------
(***************************************************************************)
(* Proofs about RequestHandler, for targets of any length, files of any    *)
(* sizes and any verbs.                                                    *)
(*                                                                         *)
(* First the answers: a response is followed through its setters.  Then    *)
(* the targets: the check searches a changed copy of the target for one    *)
(* string, which is turned into what it says of the components of the      *)
(* target (LegalTargets) and of the path that is made of it                *)
(* (PathDescends).  Nothing here needs induction: a path without parent    *)
(* components leaves no directory, however long it is.                     *)
(***************************************************************************)
EXTENDS RequestHandler, TLAPS, SequenceTheorems, FiniteSetTheorems, WellFoundedInduction

USE DEF Versions, no_such_file, denied, http_get, http_head

-----------------------------------------------------------------------------
(***************************************************************************)
(* The responses.                                                          *)
(***************************************************************************)

\* A Connection field says what it was chosen to say.
LEMMA SaidIsMeant ==
  ASSUME NEW version \in Versions, NEW keep \in BOOLEAN, NEW message,
         message.version = version, message.connection = Saying(version, keep)
  PROVE  KeepAlive(message) = keep
<1>1. CASE version = 10
  BY <1>1 DEF KeepAlive, Saying
<1>2. CASE version = 11
  BY <1>2 DEF KeepAlive, Saying
<1> QED
  BY <1>1, <1>2

\* What is returned agrees with the request, and declares the body it has.
Agrees(message) == KeepAlive(message) = KeepAlive(req)
Declares(message) == message.content_length = message.body

LEMMA KeepAliveType == ASSUME NEW message PROVE KeepAlive(message) \in BOOLEAN
  BY DEF KeepAlive

\* A message of the fields of a response, whatever is in them.
Shape(message) ==
  message = [status |-> message.status, version |-> message.version,
             connection |-> message.connection, type |-> message.type,
             content_length |-> message.content_length, body |-> message.body]

\* How a response is written step by step, and what a step leaves alone.
LEMMA Creating ==
  ASSUME NEW status, NEW version
  PROVE  Shape(Created(status, version)) /\ Created(status, version).version = version
  BY DEF Shape, Created

LEMMA Setting ==
  ASSUME NEW message, Shape(message), NEW new
  PROVE  /\ Shape(SetVersion(message, new)) /\ SetVersion(message, new).version = new
         /\ Shape(SetResult(message, new)) /\ SetResult(message, new).version = message.version
         /\ Shape(SetBody(message, new)) /\ SetBody(message, new).version = message.version
         /\ SetBody(message, new).body = new
<1>1. Shape(SetVersion(message, new)) /\ SetVersion(message, new).version = new
  BY DEF Shape, SetVersion
<1>2. Shape(SetResult(message, new)) /\ SetResult(message, new).version = message.version
  BY DEF Shape, SetResult
<1>3. /\ Shape(SetBody(message, new)) /\ SetBody(message, new).version = message.version
      /\ SetBody(message, new).body = new
  BY DEF Shape, SetBody
<1> QED
  BY <1>1, <1>2, <1>3

LEMMA SettingFields ==
  ASSUME NEW message, Shape(message), NEW new
  PROVE  /\ Shape(SetType(message, new)) /\ SetType(message, new).version = message.version
         /\ SetType(message, new).body = message.body
         /\ Shape(SetContentLength(message, new))
         /\ SetContentLength(message, new).version = message.version
         /\ SetContentLength(message, new).body = message.body
         /\ SetContentLength(message, new).content_length = new
<1>1. /\ Shape(SetType(message, new)) /\ SetType(message, new).version = message.version
      /\ SetType(message, new).body = message.body
  BY DEF Shape, SetType
<1>2. /\ Shape(SetContentLength(message, new))
      /\ SetContentLength(message, new).version = message.version
      /\ SetContentLength(message, new).body = message.body
      /\ SetContentLength(message, new).content_length = new
  BY DEF Shape, SetContentLength
<1> QED
  BY <1>1, <1>2

LEMMA SettingKeepAlive ==
  ASSUME NEW message, Shape(message), message.version \in Versions, NEW keep \in BOOLEAN
  PROVE  LET said == SetKeepAlive(message, keep)
         IN /\ Shape(said) /\ KeepAlive(said) = keep
            /\ said.content_length = message.content_length /\ said.body = message.body
<1> DEFINE said == SetKeepAlive(message, keep)
<1>1. /\ Shape(said)
      /\ said.version = message.version
      /\ said.connection = Saying(message.version, keep)
      /\ said.content_length = message.content_length /\ said.body = message.body
  BY DEF Shape, SetKeepAlive
<1> QED
  BY <1>1, SaidIsMeant

LEMMA Preparing ==
  ASSUME NEW message, Shape(message)
  PROVE  /\ KeepAlive(PreparePayload(message)) = KeepAlive(message)
         /\ Declares(PreparePayload(message))
<1>1. /\ PreparePayload(message).version = message.version
      /\ PreparePayload(message).connection = message.connection
      /\ PreparePayload(message).content_length = PreparePayload(message).body
  BY DEF Shape, PreparePayload
<1> QED
  BY <1>1 DEF KeepAlive, Declares

LEMMA ErrorPageFits ==
  ASSUME req.version \in Versions, NEW status
  PROVE  Agrees(ErrorPage(status)) /\ Declares(ErrorPage(status))
<1> DEFINE page == SetBody(Created(status, req.version), 1)
<1>1. Shape(page) /\ page.version = req.version
  BY Creating, Setting
<1>2. Shape(SetKeepAlive(page, KeepAlive(req))) /\ KeepAlive(SetKeepAlive(page, KeepAlive(req))) = KeepAlive(req)
  <2> HIDE DEF page
  <2> QED
    BY <1>1, SettingKeepAlive, KeepAliveType
<1>3. ErrorPage(status) = PreparePayload(SetKeepAlive(page, KeepAlive(req)))
  BY DEF ErrorPage
<1> QED
  <2> HIDE DEF page
  <2> QED
    BY <1>2, <1>3, Preparing DEF Agrees

LEMMA FileResponseFits ==
  ASSUME req.version \in Versions, NEW size
  PROVE  /\ Agrees(FileResponse(size))
         /\ FileResponse(size).content_length = size
         /\ FileResponse(size).body = IF req.method = http_get THEN size ELSE 0
<1> DEFINE body == IF req.method = http_get THEN size ELSE 0
           filled == SetBody(Created(200, req.version), body)
           typed == SetType(filled, TypeOf(PathOf(req.target)))
           file == SetContentLength(typed, size)
<1>1. Shape(file) /\ file.version = req.version /\ file.content_length = size /\ file.body = body
  <2> HIDE DEF body
  <2>1. Shape(filled) /\ filled.version = req.version /\ filled.body = body
    BY Creating, Setting
  <2> HIDE DEF filled
  <2>2. Shape(typed) /\ typed.version = req.version /\ typed.body = body
    BY <2>1, SettingFields
  <2> HIDE DEF typed
  <2> QED
    BY <2>2, SettingFields
<1>2. FileResponse(size) = SetKeepAlive(file, KeepAlive(req))
  BY DEF FileResponse, BodySize
<1> QED
  <2> HIDE DEF file
  <2> QED
    BY <1>1, <1>2, SettingKeepAlive, KeepAliveType DEF Agrees

LEMMA ServiceResponseFits ==
  ASSUME NEW version \in Versions, NEW result, NEW size
  PROVE  LET message == Completed(SetBody(SetResult(SetVersion(Blank, version), result), size))
         IN Agrees(message) /\ Declares(message)
<1> DEFINE filled == SetBody(SetResult(SetVersion(Blank, version), result), size)
<1>1. Shape(Blank)
  BY Creating DEF Blank
<1>2. Shape(filled) /\ filled.version = version
  BY <1>1, Setting
<1> HIDE DEF filled
<1>3. /\ Shape(SetKeepAlive(filled, KeepAlive(req)))
      /\ KeepAlive(SetKeepAlive(filled, KeepAlive(req))) = KeepAlive(req)
  BY <1>2, SettingKeepAlive, KeepAliveType
<1>4. Agrees(Completed(filled)) /\ Declares(Completed(filled))
  BY <1>3, Preparing DEF Completed, Agrees
<1> QED
  BY <1>4 DEF filled

-----------------------------------------------------------------------------
(***************************************************************************)
(* The inductive invariant: nothing is found before the end, and what is   *)
(* returned fits.                                                          *)
(***************************************************************************)
IInv ==
  /\ req.version \in Versions
  /\ stage # "returned" => found = no_such_file
  /\ ConnectionAgreed
  /\ Framed

LEMMA Initially == Init => IInv
  BY DEF Init, Requests, IInv, ConnectionAgreed, Framed

\* The answers with a page are returned with nothing found, or what was found
\* is not sent.
LEMMA PageReturned ==
  ASSUME IInv, UNCHANGED req, NEW status, Return(ErrorPage(status)),
         found' \in FileSizes => req.method \notin {http_head, http_get}
  PROVE  IInv'
<1>1. res' = ErrorPage(status) /\ stage' = "returned"
  BY DEF Return
<1>2. Agrees(res') /\ Declares(res')
  BY <1>1, ErrorPageFits DEF IInv
<1>3. ConnectionAgreed'
  BY <1>2 DEF ConnectionAgreed, Agrees, KeepAlive
<1>4. Framed'
  BY <1>2 DEF Framed, Declares
<1> QED
  BY <1>1, <1>3, <1>4 DEF IInv

LEMMA Inductive == IInv /\ [Next]_vars => IInv'
<1> SUFFICES ASSUME IInv, [Next]_vars PROVE IInv'
  OBVIOUS
<1>n. no_such_file \notin FileSizes
  BY BoundsAssumption
<1>1. CASE RefuseTarget
  <2>1. UNCHANGED req /\ Return(ErrorPage(400)) /\ found' = no_such_file
    BY <1>1 DEF RefuseTarget, IInv
  <2> QED
    BY <2>1, <1>n, PageReturned
<1>2. CASE TargetIsPath
  BY <1>2 DEF TargetIsPath, IInv, ConnectionAgreed, Framed
<1>3. CASE File
  <2> USE <1>3 DEF File
  <2>1. CASE NoFile
    <3>1. found' \notin FileSizes
      BY <2>1, BoundsAssumption DEF NoFile
    <3> QED
      BY <2>1, <3>1, PageReturned DEF NoFile
  <2>2. CASE RefuseFileMethod
    BY <2>2, PageReturned DEF RefuseFileMethod
  <2>3. CASE SendFile
    <3>1. /\ res' = FileResponse(found') /\ stage' = "returned" /\ UNCHANGED req
          /\ found' \in FileSizes /\ req.method \in {http_head, http_get}
      BY <2>3 DEF SendFile, Return
    <3>2. /\ Agrees(res') /\ res'.content_length = found'
          /\ res'.body = IF req.method = http_get THEN found' ELSE 0
      BY <3>1, FileResponseFits DEF IInv
    <3>3. ConnectionAgreed'
      BY <3>1, <3>2 DEF ConnectionAgreed, Agrees, KeepAlive
    <3>4. Framed'
      BY <3>1, <3>2 DEF Framed
    <3> QED
      BY <3>1, <3>3, <3>4 DEF IInv
  <2> QED
    BY <2>1, <2>2, <2>3
<1>4. CASE RefuseMethod
  <2>1. UNCHANGED req /\ Return(ErrorPage(400)) /\ found' = no_such_file
    BY <1>4 DEF RefuseMethod, IInv
  <2> QED
    BY <2>1, <1>n, PageReturned
<1>5. CASE ServiceHandles
  <2>1. UNCHANGED <<req, found>> /\ found' = no_such_file
    BY <1>5 DEF ServiceHandles, IInv
  <2>2. CASE stage' = "threw"
    BY <2>1, <2>2 DEF IInv, ConnectionAgreed, Framed
  <2>3. CASE stage' # "threw"
    <3>1. PICK version \in Versions, result \in {200, 204}, size \in {0, 1} :
            Return(Completed(SetBody(SetResult(SetVersion(Blank, version), result), size)))
      BY <1>5, <2>3 DEF ServiceHandles
    <3>2. Agrees(res') /\ Declares(res') /\ stage' = "returned"
      BY <3>1, ServiceResponseFits DEF Return
    <3>3. ConnectionAgreed'
      BY <2>1, <3>2 DEF ConnectionAgreed, Agrees, KeepAlive
    <3>4. Framed'
      BY <2>1, <3>2, <1>n DEF Framed, Declares
    <3> QED
      BY <2>1, <3>2, <3>3, <3>4 DEF IInv
  <2> QED
    BY <2>2, <2>3
<1>6. CASE UNCHANGED vars
  BY <1>6 DEF vars, IInv, ConnectionAgreed, Framed, KeepAlive
<1> QED
  BY <1>1, <1>2, <1>3, <1>4, <1>5, <1>6 DEF Next

-----------------------------------------------------------------------------
(***************************************************************************)
(* The theorems.                                                           *)
(***************************************************************************)
LEMMA Invariant == Spec => []IInv
<1>1. Init => IInv
  BY Initially
<1>2. IInv /\ [Next]_vars => IInv'
  BY Inductive
<1> QED
  BY <1>1, <1>2, PTL DEF Spec

\* Every answer, of every branch of handle_request(), keeps the connection
\* exactly if the request asked for that.
THEOREM AgreedConnection == Spec => []ConnectionAgreed
<1>1. IInv => ConnectionAgreed
  BY DEF IInv
<1> QED
  BY <1>1, Invariant, PTL

\* Every answer of handle_request() declares the length of its body, and the
\* one to a head request for a file that of the file.
THEOREM FramedAnswers == Spec => []Framed
<1>1. IInv => Framed
  BY DEF IInv
<1> QED
  BY <1>1, Invariant, PTL
-----------------------------------------------------------------------------
(***************************************************************************)
(* Sequences of characters.                                                *)
(***************************************************************************)

\* What targets and paths are made of.
PathCharacters == Characters \cup {"www", "index", "html"}

\* A part of a sequence, element by element.
LEMMA PartIs ==
  ASSUME NEW S, NEW s \in Seq(S), NEW part \in Seq(S),
         NEW i \in Nat \ {0}, i + Len(part) <= Len(s) + 1
  PROVE  SubSeq(s, i, i + Len(part) - 1) = part
           <=> \A k \in 1..Len(part) : s[i + k - 1] = part[k]
<1> DEFINE j == i + Len(part) - 1
           p == SubSeq(s, i, j)
<1>1. i \in Int /\ j \in Int /\ Len(part) \in Nat /\ Len(s) \in Nat
  BY LenProperties
<1>2. \A k \in i..j : s[k] \in S
  BY <1>1, ElementOfSeq
<1>3. /\ p \in Seq(S)
      /\ Len(p) = IF i <= j THEN j - i + 1 ELSE 0
      /\ \A k \in 1..(j - i + 1) : p[k] = s[i + k - 1]
  <2> HIDE DEF j
  <2> QED
    BY <1>1, <1>2, SubSeqProperties, SMTT(20)
<1>4. j - i + 1 = Len(part) /\ Len(p) = Len(part)
  BY <1>1, <1>3
<1>5. \A k \in 1..Len(part) : p[k] = s[i + k - 1]
  BY <1>3, <1>4
<1> HIDE DEF j, p
<1>6. (\A k \in 1..Len(part) : s[i + k - 1] = part[k]) => p = part
  BY <1>3, <1>4, <1>5, SeqEqual
<1>7. p = part => \A k \in 1..Len(part) : s[i + k - 1] = part[k]
  BY <1>5
<1> QED
  BY <1>6, <1>7 DEF j, p

\* A target of a request is a sequence of characters.
LEMMA TargetType ==
  ASSUME NEW target \in SeqOf(Characters, MaxTarget)
  PROVE  target \in Seq(Characters) /\ Len(target) <= MaxTarget
<1>1. PICK m \in 0..MaxTarget : target \in [1..m -> Characters]
  BY DEF SeqOf
<1>2. m \in Nat /\ m <= MaxTarget
  BY <1>1, BoundsAssumption
<1>3. target \in Seq(Characters)
  BY <1>1, <1>2, SeqDef
<1>4. Len(target) = m
  BY <1>1, <1>2, <1>3, LenProperties
<1> QED
  BY <1>2, <1>3, <1>4

\* It is one of path characters too.
LEMMA Widened ==
  ASSUME NEW s \in Seq(Characters)
  PROVE  s \in Seq(PathCharacters)
BY SeqMonotonic DEF PathCharacters

-----------------------------------------------------------------------------
(***************************************************************************)
(* The check of the target, and the components of a path.                  *)
(***************************************************************************)
Separator == {"/", "\\"}

\* What Legal looks for: a parent component behind a separator.
ParentAt(s, Separators, i) ==
  /\ i \in Nat \ {0} /\ i + 2 <= Len(s)
  /\ s[i] \in Separators /\ s[i + 1] = "." /\ s[i + 2] = "."
  /\ i + 2 = Len(s) \/ s[i + 3] \in Separators

\* The copy that the check searches.
LEMMA Extended ==
  ASSUME NEW t \in Seq(Characters)
  PROVE  LET e == ReplaceAll(Append(t, "/"), "\\", "/")
         IN  /\ e \in Seq(Characters) /\ Len(e) = Len(t) + 1 /\ e[Len(t) + 1] = "/"
             /\ \A i \in 1..Len(t) : e[i] = IF t[i] = "\\" THEN "/" ELSE t[i]
<1> DEFINE a == Append(t, "/")
           e == ReplaceAll(a, "\\", "/")
<1>1. "/" \in Characters /\ Len(t) \in Nat
  BY LenProperties DEF Characters
<1>2. /\ a \in Seq(Characters) /\ Len(a) = Len(t) + 1
      /\ \A i \in 1..Len(t) : a[i] = t[i]
      /\ a[Len(t) + 1] = "/"
  BY <1>1, AppendProperties
<1> HIDE DEF a
<1>3. e = [i \in 1..(Len(t) + 1) |-> IF a[i] = "\\" THEN "/" ELSE a[i]]
  BY <1>2 DEF ReplaceAll
<1>4. \A i \in 1..(Len(t) + 1) : a[i] \in Characters
  BY <1>2, ElementOfSeq
<1>5. e \in [1..(Len(t) + 1) -> Characters]
  BY <1>1, <1>3, <1>4
<1>6. e \in Seq(Characters)
  BY <1>1, <1>5, SeqDef
<1>7. Len(e) = Len(t) + 1
  BY <1>1, <1>5, <1>6, LenProperties
<1>8. e[Len(t) + 1] = "/"
  BY <1>1, <1>2, <1>3
<1>9. \A i \in 1..Len(t) : e[i] = IF t[i] = "\\" THEN "/" ELSE t[i]
  BY <1>1, <1>2, <1>3
<1> QED
  BY <1>6, <1>7, <1>8, <1>9 DEF a

\* The string the code searches, element by element.
LEMMA Searched ==
  ASSUME NEW e \in Seq(Characters)
  PROVE  FindString(<<"/", ".", ".", "/">>, e)
           <=> \E i \in 1..(Len(e) - 3) :
                 e[i] = "/" /\ e[i + 1] = "." /\ e[i + 2] = "." /\ e[i + 3] = "/"
<1> DEFINE part == <<"/", ".", ".", "/">>
<1>1. part \in Seq(Characters) /\ Len(part) = 4
  BY DEF Characters
<1>2. part[1] = "/" /\ part[2] = "." /\ part[3] = "." /\ part[4] = "/"
  OBVIOUS
<1> HIDE DEF part
<1>3. ASSUME NEW i \in 1..(Len(e) - 3)
      PROVE  SubSeq(e, i, i + Len(part) - 1) = part
               <=> e[i] = "/" /\ e[i + 1] = "." /\ e[i + 2] = "." /\ e[i + 3] = "/"
  <2>1. i \in Nat \ {0} /\ i + Len(part) <= Len(e) + 1 /\ i + 4 <= Len(e) + 1
    BY <1>1, LenProperties
  <2>2. SubSeq(e, i, i + Len(part) - 1) = part
          <=> \A k \in 1..Len(part) : e[i + k - 1] = part[k]
    BY <1>1, <2>1, PartIs, SMTT(20)
  <2>3. (\A k \in 1..Len(part) : e[i + k - 1] = part[k])
          <=> /\ e[i + 1 - 1] = part[1] /\ e[i + 2 - 1] = part[2]
              /\ e[i + 3 - 1] = part[3] /\ e[i + 4 - 1] = part[4]
    <3>1. \A k : k \in 1..Len(part) <=> k = 1 \/ k = 2 \/ k = 3 \/ k = 4
      BY <1>1
    <3> QED
      BY <3>1
  <2>4. i + 1 - 1 = i /\ i + 2 - 1 = i + 1 /\ i + 3 - 1 = i + 2 /\ i + 4 - 1 = i + 3
    BY <2>1
  <2> QED
    BY <1>2, <2>2, <2>3, <2>4
<1>4. Len(e) - Len(part) + 1 = Len(e) - 3
  BY <1>1, LenProperties
<1>5. FindString(part, e)
        <=> \E i \in 1..(Len(e) - 3) : SubSeq(e, i, i + Len(part) - 1) = part
  BY <1>4 DEF FindString
<1>6. FindString(part, e)
        <=> \E i \in 1..(Len(e) - 3) :
              e[i] = "/" /\ e[i + 1] = "." /\ e[i + 2] = "." /\ e[i + 3] = "/"
  BY <1>3, <1>5
<1> QED
  BY <1>6 DEF part

\* A target is legal if it starts at the root and has no parent component
\* behind a separator of either kind.
LEMMA LegalMeans ==
  ASSUME NEW t \in Seq(Characters)
  PROVE  Legal(t) <=> /\ t # <<>> /\ Head(t) = "/"
                      /\ \A i : ~ParentAt(t, Separator, i)
<1> DEFINE e == ReplaceAll(Append(t, "/"), "\\", "/")
<1>1. /\ e \in Seq(Characters) /\ Len(e) = Len(t) + 1 /\ e[Len(t) + 1] = "/"
      /\ \A i \in 1..Len(t) : e[i] = IF t[i] = "\\" THEN "/" ELSE t[i]
  BY Extended
<1>2. Len(t) \in Nat
  BY LenProperties
<1>3. Legal(t) <=> t # <<>> /\ Head(t) = "/" /\ ~FindString(<<"/", ".", ".", "/">>, e)
  BY DEF Legal
<1> HIDE DEF e
<1>4. ASSUME NEW i \in Nat \ {0}, i + 2 <= Len(t)
      PROVE  ParentAt(t, Separator, i)
               <=> e[i] = "/" /\ e[i + 1] = "." /\ e[i + 2] = "." /\ e[i + 3] = "/"
  <2>1. /\ i \in 1..Len(t) /\ i + 1 \in 1..Len(t) /\ i + 2 \in 1..Len(t)
        /\ i + 2 = Len(t) \/ i + 3 \in 1..Len(t)
        /\ i + 2 = Len(t) => i + 3 = Len(t) + 1
        /\ i + 2 = Len(t) => i + 3 \notin 1..Len(t)
    BY <1>2, <1>4
  <2>2. e[i] = "/" <=> t[i] \in Separator
    BY <1>1, <2>1 DEF Separator
  <2>3. e[i + 1] = "." <=> t[i + 1] = "."
    BY <1>1, <2>1
  <2>4. e[i + 2] = "." <=> t[i + 2] = "."
    BY <1>1, <2>1
  <2>5. e[i + 3] = "/" <=> i + 2 = Len(t) \/ t[i + 3] \in Separator
    <3>1. CASE i + 2 = Len(t)
      BY <1>1, <2>1, <3>1
    <3>2. CASE i + 2 # Len(t)
      BY <1>1, <2>1, <3>2 DEF Separator
    <3> QED
      BY <3>1, <3>2
  <2> QED
    BY <1>4, <2>2, <2>3, <2>4, <2>5 DEF ParentAt
<1>5. \A i : i \in 1..(Len(e) - 3) <=> i \in Nat \ {0} /\ i + 2 <= Len(t)
  BY <1>1, <1>2
<1>6. FindString(<<"/", ".", ".", "/">>, e) <=> \E i : ParentAt(t, Separator, i)
  <2>1. FindString(<<"/", ".", ".", "/">>, e)
          <=> \E i \in 1..(Len(e) - 3) :
                e[i] = "/" /\ e[i + 1] = "." /\ e[i + 2] = "." /\ e[i + 3] = "/"
    BY <1>1, Searched
  <2>2. \A i : ParentAt(t, Separator, i) => i \in Nat \ {0} /\ i + 2 <= Len(t)
    BY DEF ParentAt
  <2> QED
    BY <1>4, <1>5, <2>1, <2>2
<1> QED
  BY <1>3, <1>6

\* A component is the parent if it is two dots.
LEMMA ParentIs ==
  ASSUME NEW S, NEW s \in Seq(S), "." \in S, NEW Separators, NEW i \in Nat \ {0}
  PROVE  ComponentIs(s, Separators, i, Parent)
           <=> /\ i + 1 <= Len(s) /\ s[i] = "." /\ s[i + 1] = "."
               /\ i + 1 = Len(s) \/ s[i + 2] \in Separators
<1>1. Parent \in Seq(S) /\ Len(Parent) = 2 /\ Parent[1] = "." /\ Parent[2] = "."
  BY DEF Parent
<1>2. Len(s) \in Nat
  BY LenProperties
<1>3. ASSUME i + 2 <= Len(s) + 1
      PROVE  SubSeq(s, i, i + 2 - 1) = Parent <=> s[i] = "." /\ s[i + 1] = "."
  <2>1. SubSeq(s, i, i + Len(Parent) - 1) = Parent
          <=> \A k \in 1..Len(Parent) : s[i + k - 1] = Parent[k]
    BY <1>1, <1>3, PartIs
  <2>2. \A k : k \in 1..Len(Parent) <=> k = 1 \/ k = 2
    BY <1>1
  <2>3. i + 1 - 1 = i /\ i + 2 - 1 = i + 1
    OBVIOUS
  <2> QED
    BY <1>1, <2>1, <2>2, <2>3
<1>4. ComponentIs(s, Separators, i, Parent)
        <=> /\ i + 2 <= Len(s) + 1 /\ SubSeq(s, i, i + 2 - 1) = Parent
            /\ i + 2 = Len(s) + 1 \/ s[i + 2] \in Separators
  BY <1>1 DEF ComponentIs
<1>5. (i + 2 <= Len(s) + 1 <=> i + 1 <= Len(s)) /\ (i + 2 = Len(s) + 1 <=> i + 1 = Len(s))
  BY <1>2
<1> QED
  BY <1>3, <1>4, <1>5

\* The parent components of a target that starts at the root are those that
\* the check looks for.
LEMMA TargetParents ==
  ASSUME NEW t \in Seq(Characters), t # <<>>, Head(t) = "/"
  PROVE  Parents(t, Separator) = {} <=> \A i : ~ParentAt(t, Separator, i)
<1>1. Len(t) \in Nat /\ t[1] = "/" /\ "." \in Characters
  BY LenProperties, HeadTailProperties DEF Characters
<1>2. ASSUME NEW i, ParentAt(t, Separator, i) PROVE i + 1 \in Parents(t, Separator)
  <2>1. /\ i \in Nat \ {0} /\ i + 2 <= Len(t) /\ t[i] \in Separator
        /\ t[i + 1] = "." /\ t[i + 2] = "." /\ (i + 2 = Len(t) \/ t[i + 3] \in Separator)
    BY <1>2 DEF ParentAt
  <2>2. /\ i + 1 \in Nat \ {0} /\ i + 1 \in 1..(Len(t) + 1) /\ (i + 1) - 1 = i
        /\ (i + 1) + 1 = i + 2 /\ (i + 1) + 2 = i + 3
    BY <1>1, <2>1
  <2>3. ComponentIs(t, Separator, i + 1, Parent)
    BY <1>1, <2>1, <2>2, ParentIs
  <2> QED
    BY <2>1, <2>2, <2>3 DEF Parents, Starts
<1>3. ASSUME NEW i \in Parents(t, Separator) PROVE ParentAt(t, Separator, i - 1)
  <2>1. /\ i \in 1..(Len(t) + 1) /\ (i = 1 \/ t[i - 1] \in Separator)
        /\ ComponentIs(t, Separator, i, Parent)
    BY <1>3 DEF Parents, Starts
  <2>2. /\ i + 1 <= Len(t) /\ t[i] = "." /\ t[i + 1] = "."
        /\ i + 1 = Len(t) \/ t[i + 2] \in Separator
    BY <1>1, <2>1, ParentIs
  <2>3. i # 1
    BY <1>1, <2>2
  <2>4. /\ i - 1 \in Nat \ {0} /\ (i - 1) + 1 = i /\ (i - 1) + 2 = i + 1
        /\ (i - 1) + 3 = i + 2
    BY <1>1, <2>1, <2>3
  <2> QED
    BY <2>1, <2>2, <2>3, <2>4 DEF ParentAt
<1> QED
  BY <1>2, <1>3

\* Hence what is legal, in terms of components.
LEMMA LegalTargets ==
  ASSUME NEW t \in Seq(Characters)
  PROVE  Legal(t) <=> t # <<>> /\ Head(t) = "/" /\ Parents(t, Separator) = {}
BY LegalMeans, TargetParents

\* The path of a target: the root, the target and, for a directory, its page.
LEMMA PathIs ==
  ASSUME NEW t \in Seq(Characters), t # <<>>
  PROVE  LET p == PathOf(t)
             n == Len(t)
         IN  /\ p \in Seq(PathCharacters) /\ n \in Nat \ {0}
             /\ p[1] = "." /\ p[2] = "/" /\ p[3] = "www"
             /\ \A i \in 1..n : p[i + 3] = t[i]
             /\ \/ Len(p) = n + 3 /\ t[n] # "/"
                \/ /\ Len(p) = n + 6 /\ t[n] = "/"
                   /\ p[n + 4] = "index" /\ p[n + 5] = "." /\ p[n + 6] = "html"
<1> DEFINE n == Len(t)
           base == doc_root \o t
           page == <<"index", ".", "html">>
<1>1. /\ doc_root \in Seq(PathCharacters) /\ Len(doc_root) = 3
      /\ doc_root[1] = "." /\ doc_root[2] = "/" /\ doc_root[3] = "www"
      /\ page \in Seq(PathCharacters) /\ Len(page) = 3
      /\ page[1] = "index" /\ page[2] = "." /\ page[3] = "html"
  BY DEF doc_root, PathCharacters, Characters
<1>2. t \in Seq(PathCharacters) /\ n \in Nat \ {0}
  BY Widened, LenProperties, EmptySeq
<1> HIDE DEF page, n
<1>3. /\ base \in Seq(PathCharacters) /\ Len(base) = 3 + n
      /\ \A i \in 1..(3 + n) : base[i] = IF i <= 3 THEN doc_root[i] ELSE t[i - 3]
  <2>1. /\ base \in Seq(PathCharacters) /\ Len(base) = Len(doc_root) + Len(t)
        /\ \A i \in 1..(Len(doc_root) + Len(t)) :
             base[i] = IF i <= Len(doc_root) THEN doc_root[i] ELSE t[i - Len(doc_root)]
    BY <1>1, <1>2, ConcatProperties
  <2> HIDE DEF base
  <2> QED
    BY <1>1, <2>1 DEF n
<1>4. /\ base[1] = "." /\ base[2] = "/" /\ base[3] = "www" /\ base[n + 3] = t[n]
      /\ \A i \in 1..n : base[i + 3] = t[i]
  BY <1>1, <1>2, <1>3, SMTT(20)
<1> HIDE DEF base
<1>5. PathOf(t) = IF base[n + 3] = "/" THEN base \o page ELSE base
  <2>1. Last(base) = base[n + 3]
    BY <1>2, <1>3 DEF Last
  <2> QED
    BY <2>1 DEF PathOf, base, page
<1>6. CASE t[n] # "/"
  <2>1. PathOf(t) = base
    BY <1>4, <1>5, <1>6
  <2> QED
    BY <1>2, <1>3, <1>4, <1>6, <2>1 DEF n
<1>7. CASE t[n] = "/"
  <2> DEFINE p == base \o page
  <2>1. PathOf(t) = p
    BY <1>4, <1>5, <1>7
  <2>2. /\ p \in Seq(PathCharacters) /\ Len(p) = 3 + n + 3
        /\ \A i \in 1..(3 + n + 3) : p[i] = IF i <= 3 + n THEN base[i] ELSE page[i - (3 + n)]
    <3>1. /\ p \in Seq(PathCharacters) /\ Len(p) = Len(base) + Len(page)
          /\ \A i \in 1..(Len(base) + Len(page)) :
               p[i] = IF i <= Len(base) THEN base[i] ELSE page[i - Len(base)]
      BY <1>1, <1>3, ConcatProperties
    <3> HIDE DEF p
    <3> QED
      BY <1>1, <1>3, <3>1
  <2> HIDE DEF p
  <2>3. Len(p) = n + 6 /\ \A i \in 1..(n + 3) : p[i] = base[i]
    BY <1>2, <2>2
  <2>4. p[n + 4] = page[1] /\ p[n + 5] = page[2] /\ p[n + 6] = page[3]
    BY <1>2, <2>2
  <2>5. p[1] = "." /\ p[2] = "/" /\ p[3] = "www" /\ \A i \in 1..n : p[i + 3] = t[i]
    BY <1>2, <1>4, <2>3
  <2> QED
    BY <1>1, <1>2, <1>7, <2>1, <2>2, <2>3, <2>4, <2>5 DEF n
<1> QED
  BY <1>6, <1>7

\* On a way without parent components nothing is left.
LEMMA NothingLeft ==
  ASSUME NEW S, NEW s \in Seq(S), NEW Separators, NEW root \in Nat,
         \A i \in Parents(s, Separators) : i < root
  PROVE  StaysBelow(s, Separators, root)
<1> SUFFICES ASSUME NEW n \in Starts(s, Separators)
             PROVE  Cardinality({i \in Parents(s, Separators) : i \in root..n})
                      <= Cardinality({i \in Names(s, Separators) : i \in root..n})
  BY DEF StaysBelow
<1> DEFINE left == {i \in Parents(s, Separators) : i \in root..n}
           entered == {i \in Names(s, Separators) : i \in root..n}
<1>1. Len(s) \in Nat /\ n \in Int
  BY LenProperties DEF Starts
<1>2. left = {}
  BY <1>1
<1>3. IsFiniteSet(root..n) /\ entered \subseteq root..n
  BY <1>1, FS_Interval
<1>4. Cardinality(entered) \in Nat
  BY <1>3, FS_Subset, FS_CardinalityType
<1>5. Cardinality(left) = 0
  BY <1>2, FS_EmptySet
<1> QED
  BY <1>4, <1>5

\* The path of a legal target leads down from the root, on either system.
LEMMA PathDescends ==
  ASSUME NEW t \in Seq(Characters), Legal(t)
  PROVE  /\ IsPrefix(Append(doc_root, "/"), PathOf(t))
         /\ \A Separators \in Systems :
              StaysBelow(PathOf(t), Separators, Len(doc_root) + 2)
<1> DEFINE p == PathOf(t)
           n == Len(t)
<1>1. t # <<>> /\ Head(t) = "/" /\ \A i : ~ParentAt(t, Separator, i)
  BY LegalMeans
<1>2. t[1] = "/"
  BY <1>1, HeadTailProperties
<1>3. /\ p \in Seq(PathCharacters) /\ n \in Nat \ {0}
      /\ p[1] = "." /\ p[2] = "/" /\ p[3] = "www"
      /\ \A i \in 1..n : p[i + 3] = t[i]
      /\ \/ Len(p) = n + 3 /\ t[n] # "/"
         \/ /\ Len(p) = n + 6 /\ t[n] = "/"
            /\ p[n + 4] = "index" /\ p[n + 5] = "." /\ p[n + 6] = "html"
  BY <1>1, PathIs
<1> HIDE DEF p, n
<1>4. Len(doc_root) = 3 /\ Len(doc_root) + 2 = 5
  BY DEF doc_root
<1>5. IsPrefix(Append(doc_root, "/"), p)
  <2> DEFINE q == Append(doc_root, "/")
  <2>1. /\ q \in Seq(PathCharacters) /\ Len(q) = 4
        /\ q[1] = "." /\ q[2] = "/" /\ q[3] = "www" /\ q[4] = "/"
    <3>1. /\ Len(doc_root) = 3
          /\ doc_root[1] = "." /\ doc_root[2] = "/" /\ doc_root[3] = "www"
      BY DEF doc_root
    <3>3. doc_root \in Seq(PathCharacters) /\ "/" \in PathCharacters
      BY DEF doc_root, PathCharacters, Characters
    <3>2. /\ q \in Seq(PathCharacters) /\ Len(q) = Len(doc_root) + 1
          /\ \A k \in 1..Len(doc_root) : q[k] = doc_root[k]
          /\ q[Len(doc_root) + 1] = "/"
      BY <3>3, AppendProperties
    <3> HIDE DEF q
    <3> QED
      BY <3>1, <3>2
  <2>2. p[4] = "/" /\ Len(p) \in Nat /\ Len(p) >= 4
    BY <1>2, <1>3
  <2> HIDE DEF q
  <2>3. \A k \in 1..4 : (k = 1 \/ k = 2 \/ k = 3 \/ k = 4) /\ 1 + k - 1 = k
    OBVIOUS
  <2>4. \A k \in 1..Len(q) : p[1 + k - 1] = q[k]
    BY <1>3, <2>1, <2>2, <2>3
  <2>5. SubSeq(p, 1, 1 + Len(q) - 1) = q
    BY <1>3, <2>1, <2>2, <2>4, PartIs
  <2>6. SubSeq(q, 1, Len(q)) = q /\ 1 + Len(q) - 1 = Len(q)
    BY <2>1, SubSeqFull
  <2>7. IsPrefix(q, p)
    BY <2>1, <2>2, <2>5, <2>6 DEF IsPrefix
  <2> QED
    BY <2>7 DEF q
<1>6. ASSUME NEW Separators \in Systems, NEW i \in Parents(p, Separators) PROVE i < 5
  <2>1. SUFFICES ASSUME i >= 5 PROVE FALSE
    BY <1>3, LenProperties DEF Parents, Starts
  <2>2. "." \in PathCharacters /\ "/" \in Separators /\ Separators \subseteq Separator
    BY DEF PathCharacters, Characters, Systems, Separator
  <2>3. Len(p) \in Nat /\ i \in Nat \ {0} /\ p[i - 1] \in Separators
    BY <1>3, <2>1, LenProperties DEF Parents, Starts
  <2>4. /\ i + 1 <= Len(p) /\ p[i] = "." /\ p[i + 1] = "."
        /\ i + 1 = Len(p) \/ p[i + 2] \in Separators
    BY <1>3, <2>2, <2>3, ParentIs DEF Parents
  <2>5. i + 1 <= n + 3
    <3>1. CASE Len(p) = n + 3
      BY <2>4, <3>1
    <3>2. CASE Len(p) = n + 6 /\ p[n + 4] = "index" /\ p[n + 6] = "html"
      <4>1. i # n + 4 /\ i + 1 # n + 4 /\ i + 1 # n + 6
        BY <2>4, <3>2
      <4>2. i + 1 <= n + 6
        BY <2>4, <3>2
      <4> QED
        BY <1>3, <2>3, <4>1, <4>2
    <3> QED
      BY <1>3, <3>1, <3>2
  <2> DEFINE j == i - 4
  <2>6. /\ j \in Nat \ {0} /\ j + 2 <= n
        /\ j \in 1..n /\ j + 1 \in 1..n /\ j + 2 \in 1..n
        /\ j + 3 = i - 1 /\ (j + 1) + 3 = i /\ (j + 2) + 3 = i + 1
    BY <1>3, <2>1, <2>3, <2>5
  <2>7. t[j] = p[i - 1] /\ t[j + 1] = p[i] /\ t[j + 2] = p[i + 1]
    BY <1>3, <2>6
  <2>8. j + 2 = n \/ t[j + 3] \in Separator
    <3> SUFFICES ASSUME j + 2 # n PROVE t[j + 3] \in Separator
      OBVIOUS
    <3>1. j + 3 \in 1..n /\ (j + 3) + 3 = i + 2
      BY <1>3, <2>3, <2>6
    <3>2. t[j + 3] = p[i + 2]
      BY <1>3, <3>1
    <3>3. i + 1 # Len(p)
      BY <1>3, <2>3, <2>6, <3>1
    <3> QED
      BY <2>2, <2>4, <3>2, <3>3
  <2>9. ParentAt(t, Separator, j)
    <3>1. t[j] \in Separator /\ t[j + 1] = "." /\ t[j + 2] = "."
      BY <2>2, <2>3, <2>4, <2>7
    <3> HIDE DEF j
    <3> QED
      BY <2>6, <2>8, <3>1 DEF ParentAt, n
  <2> QED
    BY <1>1, <2>9
<1>7. ASSUME NEW Separators \in Systems PROVE StaysBelow(p, Separators, 5)
  BY <1>3, <1>6, NothingLeft
<1> QED
  BY <1>4, <1>5, <1>7 DEF p

-----------------------------------------------------------------------------
(***************************************************************************)
(* The type of a file.                                                     *)
(***************************************************************************)

\* The greatest of a set of bounded numbers.
LEMMA MaxIs ==
  ASSUME NEW n \in Nat, NEW S, S \subseteq 0..n, S # {}
  PROVE  Max(S) \in S /\ \A x \in S : x <= Max(S)
<1> DEFINE T == {n - x : x \in S}
<1>1. T \subseteq Nat /\ T # {}
  <2>1. ASSUME NEW x \in S PROVE n - x \in Nat
    <3>1. x \in 0..n
      OBVIOUS
    <3> QED
      BY <3>1
  <2> QED
    BY <2>1
<1>2. PICK y \in T : \A z \in T : ~(<<z, y>> \in OpToRel(<, Nat))
  BY <1>1, WFMin, NatLessThanWellFounded
<1>3. \A z \in T : ~(z < y)
  BY <1>1, <1>2 DEF OpToRel
<1>4. PICK m \in S : y = n - m
  BY <1>2
<1>5. \A x \in S : m >= x
  <2> SUFFICES ASSUME NEW x \in S PROVE m >= x
    OBVIOUS
  <2>1. n - x \in T /\ m \in 0..n /\ x \in 0..n
    BY <1>4
  <2> QED
    BY <1>3, <1>4, <2>1
<1>6. Max(S) \in S /\ \A x \in S : Max(S) >= x
  BY <1>4, <1>5 DEF Max
<1> QED
  BY <1>6

\* The types a file may have.
Types == {"application/x-", "text/javascript", "text/html", m_default_mime_type}

\* The table has a type for each suffix, and none for no suffix.
LEMMA MimeTypes ==
  /\ \A file_suffix : MimeType(file_suffix) \in Types
  /\ MimeType(<<>>) = m_default_mime_type
<1>1. /\ DOMAIN m_mime_type_map = {<<".">>, <<".", "js">>, <<".", "html">>}
      /\ \A x \in DOMAIN m_mime_type_map : m_mime_type_map[x] \in Types
  BY DEF m_mime_type_map, Types
<1>2. Lower(<<>>) \notin DOMAIN m_mime_type_map
  <2>1. Lower(<<>>) = <<>>
    BY DEF Lower, ReplaceAll
  <2> QED
    BY <1>1, <2>1
<1> QED
  BY <1>1, <1>2 DEF MimeType, Types

\* The type of a file is that of the suffix behind the last dot of its name.
LEMMA TypeOfName ==
  ASSUME NEW S, NEW p \in Seq(S)
  PROVE  LET dots == {i \in Max(Starts(p, {"/"})) .. Len(p) : p[i] = "."}
         IN TypeOf(p) = IF dots = {} THEN m_default_mime_type
                                     ELSE MimeType(SubSeq(p, Max(dots), Len(p)))
<1> DEFINE n == Len(p)
           marks == {i \in 1..n : p[i] \in {".", "/"}}
           starts == Starts(p, {"/"})
           name == Max(starts)
           dots == {i \in name..n : p[i] = "."}
<1>1. n \in Nat
  BY LenProperties
<1>2. /\ name \in starts /\ \A i \in starts : i <= name
      /\ name \in 1..(n + 1) /\ (name = 1 \/ p[name - 1] = "/")
  <2>1. 1 \in starts /\ starts \subseteq 0..(n + 1)
    BY <1>1 DEF Starts
  <2>2. name \in starts /\ \A i \in starts : i <= name
    <3>1. n + 1 \in Nat /\ starts # {}
      BY <1>1, <2>1
    <3> HIDE DEF starts, n
    <3> QED
      BY <2>1, <3>1, MaxIs
  <2> QED
    BY <2>2 DEF Starts
<1>3. \A i \in name..n : p[i] # "/"
  <2> SUFFICES ASSUME NEW i \in name..n, p[i] = "/" PROVE FALSE
    OBVIOUS
  <2>1. i + 1 \in starts
    BY <1>1, <1>2 DEF Starts
  <2> QED
    BY <1>1, <1>2, <2>1
<1>4. LastDot(p) = IF marks # {} THEN Max(marks) ELSE 0
  BY DEF LastDot, SelectLastInSeq
<1>5. TypeOf(p) = IF LastDot(p) # 0 /\ p[LastDot(p)] = "."
                  THEN MimeType(SubSeq(p, LastDot(p), n)) ELSE MimeType(<<>>)
  BY DEF TypeOf
<1> HIDE DEF name, starts
<1>6. CASE dots = {}
  <2>1. ASSUME marks # {} PROVE p[Max(marks)] # "."
    <3>1. Max(marks) \in marks /\ \A i \in marks : i <= Max(marks)
      <4>1. marks \subseteq 0..n
        BY <1>1
      <4> HIDE DEF marks, n
      <4> QED
        BY <1>1, <2>1, <4>1, MaxIs
    <3>2. ASSUME p[Max(marks)] = "." PROVE FALSE
      <4>1. Max(marks) < name
        BY <1>1, <1>2, <1>6, <3>1, <3>2
      <4>2. name # 1 /\ name - 1 \in marks
        BY <1>1, <1>2, <3>1, <4>1
      <4>3. Max(marks) = name - 1
        BY <1>1, <1>2, <3>1, <4>1, <4>2
      <4> QED
        BY <1>2, <3>2, <4>2, <4>3
    <3> QED
      BY <3>2
  <2>2. TypeOf(p) = MimeType(<<>>)
    BY <1>4, <1>5, <2>1
  <2> QED
    BY <1>6, <2>2, MimeTypes DEF name, starts
<1>7. CASE dots # {}
  <2>1. dots \subseteq 0..n
    BY <1>1, <1>2
  <2>2. Max(dots) \in dots /\ \A i \in dots : i <= Max(dots)
    <3> HIDE DEF dots
    <3> QED
      BY <1>1, <1>7, <2>1, MaxIs
  <2>3. Max(dots) \in marks /\ marks # {} /\ marks \subseteq 0..n
    BY <1>1, <1>2, <2>2
  <2>4. Max(marks) \in marks /\ \A i \in marks : i <= Max(marks)
    <3> HIDE DEF marks
    <3> QED
      BY <1>1, <2>3, MaxIs
  <2>5. Max(marks) \in dots
    <3>1. Max(marks) \in name..n
      BY <1>1, <1>2, <2>2, <2>3, <2>4
    <3> QED
      BY <1>3, <2>4, <3>1
  <2>6. Max(marks) = Max(dots)
    <3>1. Max(marks) <= Max(dots) /\ Max(dots) <= Max(marks)
      BY <2>2, <2>3, <2>4, <2>5
    <3>2. Max(marks) \in Nat /\ Max(dots) \in Nat
      BY <2>3, <2>4
    <3> QED
      BY <3>1, <3>2
  <2>7. LastDot(p) = Max(dots) /\ LastDot(p) # 0 /\ p[LastDot(p)] = "."
    BY <1>4, <2>3, <2>5, <2>6
  <2> QED
    BY <1>5, <1>7, <2>7 DEF name, starts
<1> QED
  BY <1>6, <1>7

-----------------------------------------------------------------------------
(***************************************************************************)
(* The types of responses.                                                 *)
(***************************************************************************)

\* What a response is made of is what a setter was given.
LEMMA ResponseTypes ==
  ASSUME NEW message \in Response
  PROVE  /\ \A new \in Versions : SetVersion(message, new) \in Response
         /\ \A new \in {200, 204} : SetResult(message, new) \in Response
         /\ \A new \in {0, 1} \cup FileSizes :
              /\ SetBody(message, new) \in Response
              /\ SetContentLength(message, new) \in Response
         /\ \A new \in Types : SetType(message, new) \in Response
         /\ \A keep \in BOOLEAN : SetKeepAlive(message, keep) \in Response
         /\ PreparePayload(message) \in Response
<1>1. \A new \in Versions : SetVersion(message, new) \in Response
  BY DEF SetVersion, Response
<1>2. \A new \in {200, 204} : SetResult(message, new) \in Response
  BY DEF SetResult, Response
<1>3. \A new \in {0, 1} \cup FileSizes : SetBody(message, new) \in Response
  BY DEF SetBody, Response
<1>4. \A new \in {0, 1} \cup FileSizes : SetContentLength(message, new) \in Response
  BY DEF SetContentLength, Response
<1>5. \A new \in Types : SetType(message, new) \in Response
  BY DEF SetType, Response, Types
<1>6. \A keep \in BOOLEAN : SetKeepAlive(message, keep) \in Response
  <2>1. \A version, keep : Saying(version, keep) \in Connections
    BY DEF Saying, Connections
  <2> QED
    BY <2>1 DEF SetKeepAlive, Response
<1>7. PreparePayload(message) \in Response
  BY DEF PreparePayload, Response
<1> QED
  BY <1>1, <1>2, <1>3, <1>4, <1>5, <1>6, <1>7

\* A new response.
LEMMA CreatedType ==
  ASSUME NEW status \in {200, 204, 400, 404, 500}, NEW version \in Versions
  PROVE  Created(status, version) \in Response
BY DEF Created, Response, Connections

\* What each branch returns.
LEMMA ReturnedTypes ==
  ASSUME req.version \in Versions
  PROVE  /\ \A status \in {400, 404, 500} : ErrorPage(status) \in Response
         /\ \A size \in FileSizes : FileResponse(size) \in Response
         /\ \A version \in Versions, result \in {200, 204}, size \in {0, 1} :
              Completed(SetBody(SetResult(SetVersion(Blank, version), result), size))
                \in Response
<1>1. KeepAlive(req) \in BOOLEAN
  BY KeepAliveType
<1>2. ASSUME NEW status \in {400, 404, 500} PROVE ErrorPage(status) \in Response
  <2>1. Created(status, req.version) \in Response
    BY CreatedType
  <2>2. SetBody(Created(status, req.version), 1) \in Response
    BY <2>1, ResponseTypes
  <2>3. SetKeepAlive(SetBody(Created(status, req.version), 1), KeepAlive(req)) \in Response
    <3> DEFINE page == SetBody(Created(status, req.version), 1)
               keep == KeepAlive(req)
    <3>1. page \in Response /\ keep \in BOOLEAN
      BY <1>1, <2>2
    <3> HIDE DEF page, keep
    <3>2. SetKeepAlive(page, keep) \in Response
      BY <3>1, ResponseTypes
    <3> QED
      BY <3>2 DEF page, keep
  <2> QED
    BY <2>3, ResponseTypes DEF ErrorPage
<1>3. ASSUME NEW size \in FileSizes PROVE FileResponse(size) \in Response
  <2> DEFINE body == IF req.method = http_get THEN size ELSE 0
             filled == SetBody(Created(200, req.version), body)
             typed == SetType(filled, TypeOf(PathOf(req.target)))
             file == SetContentLength(typed, size)
  <2>1. filled \in Response
    <3>1. body \in {0, 1} \cup FileSizes /\ Created(200, req.version) \in Response
      BY CreatedType
    <3> HIDE DEF body
    <3> QED
      BY <3>1, ResponseTypes
  <2>2. typed \in Response
    <3>1. TypeOf(PathOf(req.target)) \in Types
      BY MimeTypes DEF TypeOf
    <3> HIDE DEF filled
    <3> QED
      BY <2>1, <3>1, ResponseTypes
  <2>3. file \in Response
    <3> HIDE DEF typed
    <3> QED
      BY <2>2, ResponseTypes
  <2>4. FileResponse(size) = SetKeepAlive(file, KeepAlive(req))
    BY DEF FileResponse, BodySize
  <2> HIDE DEF file
  <2> QED
    BY <1>1, <2>3, <2>4, ResponseTypes
<1>4. ASSUME NEW version \in Versions, NEW result \in {200, 204}, NEW size \in {0, 1}
      PROVE  Completed(SetBody(SetResult(SetVersion(Blank, version), result), size))
               \in Response
  <2> DEFINE filled == SetBody(SetResult(SetVersion(Blank, version), result), size)
  <2>1. SetResult(SetVersion(Blank, version), result) \in Response
    <3>1. SetVersion(Blank, version) \in Response
      BY CreatedType, ResponseTypes DEF Blank
    <3> QED
      BY <3>1, ResponseTypes
  <2>2. filled \in Response
    <3>1. size \in {0, 1} \cup FileSizes
      OBVIOUS
    <3> QED
      BY <2>1, <3>1, ResponseTypes
  <2> HIDE DEF filled
  <2>3. SetKeepAlive(filled, KeepAlive(req)) \in Response
    BY <1>1, <2>2, ResponseTypes
  <2>4. Completed(filled) \in Response
    BY <2>3, ResponseTypes DEF Completed
  <2> QED
    BY <2>4 DEF filled
<1> QED
  BY <1>2, <1>3, <1>4

-----------------------------------------------------------------------------
(***************************************************************************)
(* The course of a call: each of its stages, with what it has done by      *)
(* then.                                                                   *)
(***************************************************************************)
Fresh == path = <<>> /\ found = no_such_file

Called   == stage = "called" /\ Fresh /\ calls = <<>> /\ res = Blank
Refused  == stage = "returned" /\ Fresh /\ calls = <<>> /\ ~Legal(req.target)
            /\ res = ErrorPage(400)
Asked    == stage \in {"path", "service"} /\ Fresh /\ calls = <<"target_is_path">>
            /\ Legal(req.target) /\ res = Blank
Opened   == stage = "returned" /\ path = PathOf(req.target)
            /\ calls = <<"target_is_path">> /\ Legal(req.target)
            /\ found \in {no_such_file, denied} \cup FileSizes
            /\ \/ found \in FileSizes /\ res = FileResponse(found)
               \/ \E status \in {400, 404, 500} : res = ErrorPage(status)
Unasked  == stage = "returned" /\ Fresh /\ calls = <<"target_is_path">>
            /\ Legal(req.target) /\ res = ErrorPage(400)
Answered == stage \in {"returned", "threw"} /\ Fresh
            /\ calls = <<"target_is_path", "handle_request">>
            /\ Legal(req.target) /\ Serviced(req.method) /\ res \in Response

Course == /\ req \in Requests
          /\ Called \/ Refused \/ Asked \/ Opened \/ Unasked \/ Answered

\* What a request is made of.
LEMMA RequestTypes ==
  ASSUME req \in Requests
  PROVE  /\ req.target \in Seq(Characters) /\ Len(req.target) <= MaxTarget
         /\ req.method \in Methods /\ req.version \in Versions
         /\ req.connection \in Connections
<1>1. /\ req.target \in SeqOf(Characters, MaxTarget) /\ req.method \in Methods
      /\ req.version \in Versions /\ req.connection \in Connections
  BY DEF Requests
<1> QED
  BY <1>1, TargetType

\* The callbacks of a call that asks the service.
LEMMA BothCalls ==
  Append(<<"target_is_path">>, "handle_request") = <<"target_is_path", "handle_request">>
<1> DEFINE S == {"target_is_path", "handle_request"}
           one == <<"target_is_path">>
           two == <<"target_is_path", "handle_request">>
           all == Append(one, "handle_request")
<1>1. Len(one) = 1 /\ one[1] = "target_is_path"
  OBVIOUS
<1>2. one \in Seq(S) /\ "handle_request" \in S
  OBVIOUS
<1>3. /\ two \in Seq(S) /\ Len(two) = 2
      /\ two[1] = "target_is_path" /\ two[2] = "handle_request"
  OBVIOUS
<1> HIDE DEF S, one, two
<1>4. /\ all \in Seq(S) /\ Len(all) = Len(one) + 1
      /\ \A i \in 1..Len(one) : all[i] = one[i]
      /\ all[Len(one) + 1] = "handle_request"
  BY <1>2, AppendProperties
<1> HIDE DEF all
<1>5. Len(all) = 2 /\ all[1] = two[1] /\ all[2] = two[2]
  BY <1>1, <1>3, <1>4
<1>6. \A i \in 1..Len(all) : i = 1 \/ i = 2
  BY <1>5
<1>7. all = two
  BY <1>3, <1>4, <1>5, <1>6, SeqEqual
<1> QED
  BY <1>7 DEF all, one, two

\* A call starts at its beginning.
LEMMA CourseStarts == Init => Course
BY DEF Init, Course, Called, Fresh

\* Each step of a call leads from one of its stages to the next.
LEMMA CourseGoesOn == Course /\ [Next]_vars => Course'
<1> SUFFICES ASSUME Course, [Next]_vars PROVE Course'
  OBVIOUS
<1>1. req \in Requests /\ req.version \in Versions
  BY RequestTypes DEF Course
<1>2. CASE RefuseTarget
  <2>1. Called /\ Refused'
    BY <1>2 DEF RefuseTarget, Return, Course, Called, Refused, Asked, Opened, Unasked,
       Answered, Fresh, ErrorPage
  <2> QED
    BY <1>1, <1>2, <2>1 DEF RefuseTarget, Course
<1>3. CASE TargetIsPath
  <2>1. Called
    BY <1>3 DEF TargetIsPath, Course, Called, Refused, Asked, Opened, Unasked, Answered
  <2>2. Append(calls, "target_is_path") = <<"target_is_path">>
    BY <2>1 DEF Called
  <2>3. Asked'
    BY <1>3, <2>1, <2>2 DEF TargetIsPath, Called, Asked, Fresh
  <2> QED
    BY <1>1, <1>3, <2>3 DEF TargetIsPath, Course
<1>4. CASE File
  <2>1. Asked /\ UNCHANGED <<req, calls>> /\ path' = PathOf(req.target)
    BY <1>4 DEF File, Course, Called, Refused, Asked, Opened, Unasked, Answered
  <2>2. /\ stage' = "returned" /\ found' \in {no_such_file, denied} \cup FileSizes
        /\ \/ found' \in FileSizes /\ res' = FileResponse(found')
           \/ \E status \in {400, 404, 500} : res' = ErrorPage(status)
    <3>1. CASE NoFile
      BY <3>1 DEF NoFile, Return
    <3>2. CASE SendFile
      BY <3>2 DEF SendFile, Return
    <3>3. CASE RefuseFileMethod
      BY <3>3 DEF RefuseFileMethod, Return
    <3> QED
      BY <1>4, <3>1, <3>2, <3>3 DEF File
  <2>3. /\ FileResponse(found') = FileResponse(found)'
        /\ \A status : ErrorPage(status)' = ErrorPage(status)
    BY <2>1 DEF FileResponse, ErrorPage
  <2>4. Opened'
    BY <2>1, <2>2, <2>3 DEF Asked, Opened
  <2> QED
    BY <1>1, <2>1, <2>4 DEF Course
<1>5. CASE RefuseMethod
  <2>1. Asked /\ Unasked'
    BY <1>5 DEF RefuseMethod, Return, Course, Called, Refused, Asked, Opened, Unasked,
       Answered, Fresh, ErrorPage
  <2> QED
    BY <1>1, <1>5, <2>1 DEF RefuseMethod, Course
<1>6. CASE ServiceHandles
  <2>1. /\ Asked /\ Serviced(req.method) /\ UNCHANGED <<req, path, found>>
        /\ calls' = Append(calls, "handle_request")
    BY <1>6 DEF ServiceHandles, Course, Called, Refused, Asked, Opened, Unasked, Answered
  <2>2. calls' = <<"target_is_path", "handle_request">>
    <3>1. calls = <<"target_is_path">>
      BY <2>1 DEF Asked
    <3> QED
      BY <2>1, <3>1, BothCalls
  <2>3. Blank \in Response
    BY CreatedType DEF Blank
  <2>4. stage' \in {"returned", "threw"} /\ res' \in Response
    BY <1>1, <1>6, <2>1, <2>3, ReturnedTypes DEF ServiceHandles, Return, Asked
  <2>5. Answered'
    <3>1. Legal(req.target)' /\ Serviced(req.method)'
      BY <2>1 DEF Asked
    <3>2. Fresh'
      BY <2>1 DEF Asked, Fresh
    <3>3. (res \in Response)'
      BY <2>4 DEF Response
    <3> QED
      BY <2>2, <2>4, <3>1, <3>2, <3>3 DEF Answered
  <2> QED
    BY <1>1, <2>1, <2>5 DEF Course
<1>7. CASE UNCHANGED vars
  BY <1>7 DEF vars, Course, Called, Refused, Asked, Opened, Unasked, Answered, Fresh,
     FileResponse, ErrorPage, Response
<1> QED
  BY <1>2, <1>3, <1>4, <1>5, <1>6, <1>7 DEF Next

\* In every behaviour.
LEMMA CourseKept == Spec => []Course
BY CourseStarts, CourseGoesOn, PTL DEF Spec

-----------------------------------------------------------------------------
(***************************************************************************)
(* Theorems about targets and paths.                                       *)
(***************************************************************************)

\* Every variable has a value the code can give it.
THEOREM TypeCorrect == Spec => []TypeOK
<1>1. ASSUME Course PROVE TypeOK
  <2>1. /\ req.target \in Seq(Characters) /\ Len(req.target) <= MaxTarget
        /\ req.method \in Methods /\ req.version \in Versions
        /\ req.connection \in Connections
    BY <1>1, RequestTypes DEF Course
  <2>2. /\ stage \in {"called", "path", "service", "returned", "threw"}
        /\ path \in {<<>>, PathOf(req.target)}
        /\ found \in {no_such_file, denied} \cup FileSizes
    BY <1>1 DEF Course, Called, Refused, Asked, Opened, Unasked, Answered, Fresh
  <2>3. calls \in {<<>>, <<"target_is_path">>, <<"target_is_path", "handle_request">>}
    BY <1>1 DEF Course, Called, Refused, Asked, Opened, Unasked, Answered
  <2>4. calls \in Seq({"target_is_path", "handle_request"})
    <3>1. /\ <<>> \in Seq({"target_is_path", "handle_request"})
          /\ <<"target_is_path">> \in Seq({"target_is_path", "handle_request"})
          /\ <<"target_is_path", "handle_request">>
               \in Seq({"target_is_path", "handle_request"})
      OBVIOUS
    <3> QED
      BY <2>3, <3>1
  <2>5. res \in Response
    <3>1. Blank \in Response
      BY CreatedType DEF Blank
    <3> QED
      BY <1>1, <2>1, <3>1, ReturnedTypes
         DEF Course, Called, Refused, Asked, Opened, Unasked, Answered
  <2> QED
    BY <2>1, <2>2, <2>4, <2>5 DEF TypeOK
<1> QED
  BY <1>1, CourseKept, PTL

\* Whatever the target, the path that is opened leads down from the root, on
\* either system.
THEOREM ConfinedToRoot == Spec => []Confined
<1>1. ASSUME Course PROVE Confined
  <2> SUFFICES ASSUME path # <<>>
               PROVE  /\ IsPrefix(Append(doc_root, "/"), path)
                      /\ \A Separators \in Systems :
                           StaysBelow(path, Separators, Len(doc_root) + 2)
    BY DEF Confined
  <2>1. path = PathOf(req.target) /\ Legal(req.target)
    BY <1>1 DEF Course, Called, Refused, Asked, Opened, Unasked, Answered, Fresh
  <2>2. req.target \in Seq(Characters)
    BY <1>1, RequestTypes DEF Course
  <2> QED
    BY <2>1, <2>2, PathDescends
<1> QED
  BY <1>1, CourseKept, PTL

\* A target that starts at the root is refused unasked only for a parent.
THEOREM RefusedOnlyForParent == Spec => []RefusedForParent
<1>1. ASSUME Course PROVE RefusedForParent
  <2> SUFFICES ASSUME stage = "returned", calls = <<>>, req.target # <<>>,
                      Head(req.target) = "/"
               PROVE  Parents(req.target, {"/", "\\"}) # {}
    BY DEF RefusedForParent
  <2>1. ~Legal(req.target)
    BY <1>1 DEF Course, Called, Refused, Asked, Opened, Unasked, Answered
  <2>2. req.target \in Seq(Characters)
    BY <1>1, RequestTypes DEF Course
  <2> QED
    BY <2>1, <2>2, LegalTargets DEF Separator
<1> QED
  BY <1>1, CourseKept, PTL

\* A file that is sent has the type of the extension of its name.
THEOREM TypedByExtension == Spec => []TypeByExtension
<1>1. ASSUME Course PROVE TypeByExtension
  <2> SUFFICES ASSUME stage = "returned", found \in FileSizes, res.status = 200
               PROVE  TypeByExtension
    BY DEF TypeByExtension
  <2>1. found # no_such_file
    BY BoundsAssumption
  <2>2. \A status \in {400, 404, 500} : ErrorPage(status).status = status
    BY DEF ErrorPage, Created, SetBody, SetKeepAlive, PreparePayload
  <2>3. Opened /\ res = FileResponse(found)
    BY <1>1, <2>1, <2>2 DEF Course, Called, Refused, Asked, Opened, Unasked, Answered, Fresh
  <2>4. path = PathOf(req.target) /\ Legal(req.target)
    BY <2>3 DEF Opened
  <2>5. path \in Seq(PathCharacters)
    <3>1. req.target \in Seq(Characters) /\ req.target # <<>>
      BY <1>1, <2>4, RequestTypes DEF Course, Legal
    <3> QED
      BY <2>4, <3>1, PathIs
  <2>6. res.type = TypeOf(path)
    BY <2>3, <2>4 DEF FileResponse, Created, SetBody, SetType, SetContentLength, SetKeepAlive
  <2> QED
    BY <2>5, <2>6, TypeOfName DEF TypeByExtension
<1> QED
  BY <1>1, CourseKept, PTL

\* The service is asked in order, only for methods it has a name for, and
\* never about a target with a parent component.
THEOREM AskedInOrder == Spec => []ServiceAsked
<1>1. ASSUME Course PROVE ServiceAsked
  <2>1. calls \in {<<>>, <<"target_is_path">>, <<"target_is_path", "handle_request">>}
    BY <1>1 DEF Course, Called, Refused, Asked, Opened, Unasked, Answered
  <2>2. ASSUME Contains(calls, "handle_request")
        PROVE  path = <<>> /\ req.method \in http_method_t
    <3>1. calls = <<"target_is_path", "handle_request">>
      BY <2>1, <2>2 DEF Contains
    <3>2. path = <<>> /\ Serviced(req.method)
      BY <1>1, <3>1 DEF Course, Called, Refused, Asked, Opened, Unasked, Answered, Fresh
    <3>3. req.method \in Nat
      BY <1>1, RequestTypes, BoundsAssumption DEF Course
    <3> QED
      BY <3>2, <3>3 DEF Serviced, http_method_t, http_connect
  <2>3. ASSUME calls # <<>> PROVE Parents(req.target, {"/", "\\"}) = {}
    <3>1. Legal(req.target)
      BY <1>1, <2>3 DEF Course, Called, Refused, Asked, Opened, Unasked, Answered
    <3>2. req.target \in Seq(Characters)
      BY <1>1, RequestTypes DEF Course
    <3> QED
      BY <3>1, <3>2, LegalTargets DEF Separator
  <2> QED
    BY <2>1, <2>2, <2>3 DEF ServiceAsked
<1> QED
  BY <1>1, CourseKept, PTL
=============================================================================
