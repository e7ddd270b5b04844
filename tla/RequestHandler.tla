--------------------------- MODULE RequestHandler ---------------------------
(***************************************************************************)
(* handle_request(): what a http session answers to one request, from the  *)
(* call to the return, with the two callbacks of the service on the way.   *)
(* The call keeps no state between requests, so that one call, for every   *)
(* request, is the whole of it.                                            *)
(*                                                                         *)
(* A target is a sequence over Characters: the three that the code looks   *)
(* at, and runs of letters.  Bodies are known by their sizes.  The file    *)
(* system and the service answer what they like.                           *)
(***************************************************************************)
EXTENDS Integers, Sequences, SequencesExt, TLC

CONSTANTS
  Letters,    \* bound: the runs of letters of a target
  MaxTarget,  \* bound: the characters of a target
  FileSizes,  \* bound: the sizes of the files
  Methods     \* bound: the numbers of verbs a request has (beast's numbering)

ASSUME BoundsAssumption ==
  /\ MaxTarget \in Nat
  /\ FileSizes \subseteq Nat
  /\ Methods \subseteq Nat

VARIABLES
  req,     \* the request: what the branches depend on
  stage,   \* "called", "path", "service", "returned" or "threw"
  calls,   \* the callbacks of the service that were made
  path,    \* what was opened, or <<>>
  found,   \* what the file system said: a size, no_such_file or denied
  res      \* what is returned

vars == <<req, stage, calls, path, found, res>>

no_such_file == -1
denied       == -2

-----------------------------------------------------------------------------
(***************************************************************************)
(* Requests and responses.                                                 *)
(***************************************************************************)
Characters == {"/", "\\", "."} \cup Letters

http_get     == 2
http_head    == 3
http_connect == 6

\* The methods the interface of a service names: http_unsupported, the verb
\* that is not known, up to http_connect.
http_method_t == 0 .. http_connect

Versions    == {10, 11}
Connections == {"", "close", "keep-alive"}

Requests == [target : SeqOf(Characters, MaxTarget), method : Methods,
             version : Versions, connection : Connections]

\* beast: what a Connection field says under a version, and the field that
\* says it.
KeepAlive(message) ==
  IF message.version = 10 THEN message.connection = "keep-alive"
                          ELSE message.connection # "close"
Saying(version, keep) ==
  CASE version = 10 /\ keep  -> "keep-alive"
    [] version = 11 /\ ~keep -> "close"
    [] OTHER                 -> ""

\* beast: a response of a status and a version, and the one that is made of
\* neither; every branch makes it a page first.
Created(status, version) ==
  [status |-> status, version |-> version, connection |-> "", type |-> "text/html",
   content_length |-> 0, body |-> 0]
Blank == Created(200, 11)

SetType(message, type) == [message EXCEPT !.type = type]
SetContentLength(message, size) == [message EXCEPT !.content_length = size]
SetKeepAlive(message, keep) == [message EXCEPT !.connection = Saying(message.version, keep)]

\* The wrapper a service fills a response through.
SetVersion(message, version) == [message EXCEPT !.version = version]
SetResult(message, result) == [message EXCEPT !.status = result]
SetBody(message, size) == [message EXCEPT !.body = size]

\* beast: the length of the body is declared; a status that has no body must
\* not be given one.
Bodiless(status) == status \in 100..199 \cup {204, 304}
PreparePayload(message) == [message EXCEPT !.content_length = message.body]

\* bad_request, not_found and server_error: a page with a reason.
ErrorPage(status) ==
  PreparePayload(SetKeepAlive(SetBody(Created(status, req.version), 1), KeepAlive(req)))

-----------------------------------------------------------------------------
(***************************************************************************)
(* Targets, paths and types.                                               *)
(***************************************************************************)
FindString(part, s) ==
  \E i \in 1 .. Len(s) - Len(part) + 1 : SubSeq(s, i, i + Len(part) - 1) = part

\* The target is not empty, starts at the root and has no /../ in it.
LegalWithoutSlash(target) ==
  /\ target # <<>> /\ Head(target) = "/"
  /\ ~FindString(<<"/", ".", ".", "/">>, ReplaceAll(target, "\\", "/"))
LegalWithoutDots(target) ==
  /\ target # <<>> /\ Head(target) = "/"
  /\ ~FindString(<<".", ".">>, target)
Legal(target) ==
  /\ target # <<>> /\ Head(target) = "/"
  /\ ~FindString(<<"/", ".", ".", "/">>, ReplaceAll(Append(target, "/"), "\\", "/"))

doc_root == <<".", "/", "www">>

\* path_catenate(), and the page of a directory.
PathOf(target) ==
  LET base == doc_root \o target
  IN IF Last(base) = "/" THEN base \o <<"index", ".", "html">> ELSE base

\* The suffixes the table knows, of those a path of the model may have, and
\* their types; a suffix is looked up whatever its case.
Lower(s) == ReplaceAll(s, "JS", "js")
m_mime_type_map ==
  [file_suffix \in {<<".">>, <<".", "js">>, <<".", "html">>} |->
     CASE file_suffix = <<".">>         -> "application/x-"
       [] file_suffix = <<".", "js">>   -> "text/javascript"
       [] file_suffix = <<".", "html">> -> "text/html"]
m_default_mime_type == "application/octet-stream"
MimeType(file_suffix) ==
  IF Lower(file_suffix) \in DOMAIN m_mime_type_map
  THEN m_mime_type_map[Lower(file_suffix)] ELSE m_default_mime_type

\* get_mime_type(): the suffix starts at the last dot, unless a slash follows.
FirstDot(filename) == SelectInSeq(filename, LAMBDA c : c \in {".", "/"})
LastDot(filename) == SelectLastInSeq(filename, LAMBDA c : c \in {".", "/"})
TypeOf(filename) ==
  LET pos == LastDot(filename)
  IN IF pos # 0 /\ filename[pos] = "."
     THEN MimeType(SubSeq(filename, pos, Len(filename))) ELSE MimeType(<<>>)

-----------------------------------------------------------------------------
(***************************************************************************)
(* The call.                                                               *)
(***************************************************************************)
Init ==
  /\ req \in Requests
  /\ stage = "called"
  /\ calls = <<>> /\ path = <<>> /\ found = no_such_file
  /\ res = Blank

Return(message) == res' = message /\ stage' = "returned"

\* The target is not one the server has anything for.
RefuseTarget ==
  /\ stage = "called" /\ ~Legal(req.target)
  /\ Return(ErrorPage(400))
  /\ UNCHANGED <<req, calls, path, found>>

\* The service says whether the target is a file.
TargetIsPath ==
  /\ stage = "called" /\ Legal(req.target)
  /\ stage' \in {"path", "service"}
  /\ calls' = Append(calls, "target_is_path")
  /\ UNCHANGED <<req, path, found, res>>

\* The answer to a request for a file that was opened.
BodySizeShort(size) == size - 1
BodySizeMoved(size) == 0
BodySize(size) == size
FileResponse(size) ==
  LET body == IF req.method = http_get THEN size ELSE 0
      made == SetType(SetBody(Created(200, req.version), body), TypeOf(PathOf(req.target)))
  IN SetKeepAlive(SetContentLength(made, BodySize(size)), KeepAlive(req))

\* A file: it is opened whatever the method.
NoFile ==
  /\ found' \in {no_such_file, denied}
  /\ Return(ErrorPage(IF found' = no_such_file THEN 404 ELSE 500))
SendFile ==
  /\ found' \in FileSizes /\ req.method \in {http_head, http_get}
  /\ Return(FileResponse(found'))
RefuseFileMethod ==
  /\ found' \in FileSizes /\ req.method \notin {http_head, http_get}
  /\ Return(ErrorPage(400))

File ==
  /\ stage = "path"
  /\ path' = PathOf(req.target)
  /\ NoFile \/ SendFile \/ RefuseFileMethod
  /\ UNCHANGED <<req, calls>>

\* Is the method one that the service is asked about?
AnyMethod(method) == TRUE
Serviced(method) == method <= http_connect

RefuseMethod ==
  /\ stage = "service" /\ ~Serviced(req.method)
  /\ Return(ErrorPage(400))
  /\ UNCHANGED <<req, calls, path, found>>

\* What is left to do with the response that the service filled: its body is
\* of some size, and it says how the connection goes on, in its version.
CompletedEarly(message) ==
  PreparePayload([message EXCEPT !.connection = Saying(Blank.version, KeepAlive(req))])
Completed(message) == PreparePayload(SetKeepAlive(message, KeepAlive(req)))

\* The service fills the response; what it returns is not looked at.  A body
\* under a status without one is an exception, which nobody catches.
ServiceHandles ==
  /\ stage = "service" /\ Serviced(req.method)
  /\ calls' = Append(calls, "handle_request")
  /\ \E version \in Versions, result \in {200, 204}, size \in {0, 1} :
       IF Bodiless(result) /\ size > 0
       THEN stage' = "threw" /\ res' = res
       ELSE Return(Completed(SetBody(SetResult(SetVersion(Blank, version), result), size)))
  /\ UNCHANGED <<req, path, found>>

Next == RefuseTarget \/ TargetIsPath \/ File \/ RefuseMethod \/ ServiceHandles

Spec == Init /\ [][Next]_vars

-----------------------------------------------------------------------------
(***************************************************************************)
(* Reference definitions: a path component by component.                   *)
(***************************************************************************)
Parent == <<".", ".">>

\* Where the components of a path start: at its start and behind a separator.
Starts(s, Separators) ==
  {i \in 1 .. Len(s) + 1 : i = 1 \/ s[i - 1] \in Separators}

\* The component that starts at i is this one.
ComponentIs(s, Separators, i, part) ==
  LET end == i + Len(part)
  IN /\ end <= Len(s) + 1 /\ SubSeq(s, i, end - 1) = part
     /\ end = Len(s) + 1 \/ s[end] \in Separators

Parents(s, Separators) ==
  {i \in Starts(s, Separators) : ComponentIs(s, Separators, i, Parent)}
Names(s, Separators) ==
  {i \in Starts(s, Separators) :
     \A part \in {<<>>, <<".">>, Parent} : ~ComponentIs(s, Separators, i, part)}

\* From the component at root on, the way never leads above it: up to each
\* component it has entered at least as many directories as it has left.
StaysBelow(s, Separators, root) ==
  \A n \in Starts(s, Separators) :
    Cardinality({i \in Parents(s, Separators) : i \in root .. n})
      <= Cardinality({i \in Names(s, Separators) : i \in root .. n})

\* The systems the code is built for: where / separates, and where \ does too.
Systems == { {"/"}, {"/", "\\"} }

-----------------------------------------------------------------------------
(***************************************************************************)
(* Properties.                                                             *)
(***************************************************************************)
Response == [status : {200, 204, 400, 404, 500}, version : Versions,
             connection : Connections,
             type : {"text/html", "application/x-", "text/javascript", m_default_mime_type},
             content_length : {0, 1} \cup FileSizes, body : {0, 1} \cup FileSizes]

\* Every variable has a value the code can give it.
TypeOK ==
  /\ req.target \in Seq(Characters) /\ Len(req.target) <= MaxTarget
  /\ req.method \in Methods /\ req.version \in Versions /\ req.connection \in Connections
  /\ stage \in {"called", "path", "service", "returned", "threw"}
  /\ calls \in Seq({"target_is_path", "handle_request"})
  /\ path \in {<<>>, PathOf(req.target)}
  /\ found \in {no_such_file, denied} \cup FileSizes
  /\ res \in Response

\* The path that is opened is the root and a way down from it, on a system
\* with either separator: the check of the target, which looks at a changed
\* copy, is enough for the path, which is made of the target as it came.
Confined ==
  path # <<>> =>
    /\ IsPrefix(Append(doc_root, "/"), path)
    /\ \A Separators \in Systems : StaysBelow(path, Separators, Len(doc_root) + 2)

\* A target that starts at the root is refused unasked only if one of its
\* components leads to a parent: names that hold two dots are served.
RefusedForParent ==
  stage = "returned" /\ calls = <<>> =>
    \/ req.target = <<>>
    \/ Head(req.target) # "/"
    \/ Parents(req.target, {"/", "\\"}) # {}

\* Whatever branch answers, and whatever version the service gave its answer,
\* the answer says the connection goes on exactly if the request did: the
\* session closes by the answer, the peer waits by its request.
ConnectionAgreed == stage = "returned" => KeepAlive(res) = KeepAlive(req)

\* The declared length is that of the body that follows; the answer to a head
\* request for a file declares the length of the file and has no body.
Framed ==
  stage = "returned" =>
    IF req.method = http_head /\ found \in FileSizes
    THEN res.content_length = found /\ res.body = 0
    ELSE /\ res.content_length = res.body
         /\ found \in FileSizes /\ req.method = http_get => res.body = found

\* A file that is sent has the type of the extension of its name, the last
\* component of the path, and no other: dots of directories do not count.
TypeByExtension ==
  stage = "returned" /\ found \in FileSizes /\ res.status = 200 =>
    LET dots == {i \in Max(Starts(path, {"/"})) .. Len(path) : path[i] = "."}
    IN res.type = IF dots = {} THEN m_default_mime_type
                               ELSE MimeType(SubSeq(path, Max(dots), Len(path)))

\* The service is asked first whether the target is a file, and of nothing
\* else if it is; it is given only methods its interface has a name for, and
\* only targets without a parent component, with either separator.
ServiceAsked ==
  /\ calls \in {<<>>, <<"target_is_path">>, <<"target_is_path", "handle_request">>}
  /\ Contains(calls, "handle_request") => path = <<>> /\ req.method \in http_method_t
  /\ calls # <<>> => Parents(req.target, {"/", "\\"}) = {}
=============================================================================
