------------------------------ MODULE Discovery ------------------------------
(***************************************************************************)
(* The discovery documents of the two twins and the routes that serve what *)
(* they announce.  SDK clients build every request from the document       *)
(* (twin-server-core: build_discovery_document), so the tables that the    *)
(* twins keep apart, discovery_meta and routes, have to agree.             *)
(*                                                                         *)
(* A method is <<resource and name, verb, path, schemas it refers to>>, a  *)
(* route <<what its handler does, verb, path>>.  A path is the sequence of *)
(* its segments, "*" stands for a parameter.  Descriptions, parameters and *)
(* the properties of schemas are left out, but for references.             *)
(***************************************************************************)
EXTENDS Integers, Sequences, FiniteSets

-----------------------------------------------------------------------------
(* Gmail: the path of every method starts with users/{userId}. *)

GmailMessageReadsAndAdds == {
  <<"messages.list",   "GET",  <<"messages">>, {"ListMessagesResponse"}>>,
  <<"messages.get",    "GET",  <<"messages", "*">>, {"Message"}>>,
  <<"messages.insert", "POST", <<"messages">>, {"Message"}>>,
  <<"messages.send",   "POST", <<"messages", "send">>, {"Message"}>>}

GmailMessageChanges == {
  <<"messages.delete",  "DELETE", <<"messages", "*">>, {}>>,
  <<"messages.modify",  "POST", <<"messages", "*", "modify">>,
    {"ModifyMessageRequest", "Message"}>>,
  <<"messages.trash",   "POST", <<"messages", "*", "trash">>, {"Message"}>>,
  <<"messages.untrash", "POST", <<"messages", "*", "untrash">>, {"Message"}>>,
  <<"attachments.get",  "GET",  <<"messages", "*", "attachments", "*">>,
    {"MessagePartBody"}>>}

\* Mutant: the thread is removed with POST.
GmailThreadMethodsPostDelete == {
  <<"threads.list",    "GET",    <<"threads">>, {"ListThreadsResponse"}>>,
  <<"threads.get",     "GET",    <<"threads", "*">>, {"Thread"}>>,
  <<"threads.delete",  "POST",   <<"threads", "*">>, {}>>}

GmailThreadMethods == {
  <<"threads.list",    "GET",    <<"threads">>, {"ListThreadsResponse"}>>,
  <<"threads.get",     "GET",    <<"threads", "*">>, {"Thread"}>>,
  <<"threads.delete",  "DELETE", <<"threads", "*">>, {}>>,
  <<"threads.modify",  "POST",   <<"threads", "*", "modify">>,
    {"ModifyThreadRequest", "Thread"}>>,
  <<"threads.trash",   "POST",   <<"threads", "*", "trash">>, {"Thread"}>>,
  <<"threads.untrash", "POST",   <<"threads", "*", "untrash">>, {"Thread"}>>}

GmailLabelMethods == {
  <<"labels.list",   "GET",    <<"labels">>, {"ListLabelsResponse"}>>,
  <<"labels.get",    "GET",    <<"labels", "*">>, {"Label"}>>,
  <<"labels.create", "POST",   <<"labels">>, {"Label"}>>,
  <<"labels.update", "PUT",    <<"labels", "*">>, {"Label"}>>,
  <<"labels.patch",  "PATCH",  <<"labels", "*">>, {"Label"}>>,
  <<"labels.delete", "DELETE", <<"labels", "*">>, {}>>}

GmailUserMethods == {<<"getProfile", "GET", <<"profile">>, {"Profile"}>>}

\* What every schema refers to.
GmailSchemas == [
  Message |-> {}, ListMessagesResponse |-> {"Message"},
  Thread |-> {"Message"}, ListThreadsResponse |-> {"Thread"},
  Label |-> {}, ListLabelsResponse |-> {"Label"},
  Profile |-> {}, MessagePartBody |-> {},
  ModifyMessageRequest |-> {}, ModifyThreadRequest |-> {}]

GmailMeta == [
  service |-> <<"gmail", "v1", "users", "me">>,
  methods |-> GmailMessageReadsAndAdds \cup GmailMessageChanges
              \cup GmailThreadMethods \cup GmailLabelMethods \cup GmailUserMethods,
  schemas |-> GmailSchemas]

V1(op, verb, path) == <<op, verb, <<"gmail", "v1", "users", "me">> \o path>>

GmailRoutes == {
  V1("messages.list",    "GET",    <<"messages">>),
  V1("messages.send",    "POST",   <<"messages", "send">>),
  V1("messages.insert",  "POST",   <<"messages">>),
  V1("messages.get",     "GET",    <<"messages", "*">>),
  V1("messages.delete",  "DELETE", <<"messages", "*">>),
  V1("messages.modify",  "POST",   <<"messages", "*", "modify">>),
  V1("messages.trash",   "POST",   <<"messages", "*", "trash">>),
  V1("messages.untrash", "POST",   <<"messages", "*", "untrash">>),
  V1("threads.list",     "GET",    <<"threads">>),
  V1("threads.get",      "GET",    <<"threads", "*">>),
  V1("threads.modify",   "POST",   <<"threads", "*", "modify">>),
  V1("threads.trash",    "POST",   <<"threads", "*", "trash">>),
  V1("threads.untrash",  "POST",   <<"threads", "*", "untrash">>),
  V1("threads.delete",   "DELETE", <<"threads", "*">>),
  V1("labels.list",      "GET",    <<"labels">>),
  V1("labels.create",    "POST",   <<"labels">>),
  V1("labels.get",       "GET",    <<"labels", "*">>),
  V1("labels.update",    "PUT",    <<"labels", "*">>),
  V1("labels.patch",     "PATCH",  <<"labels", "*">>),
  V1("labels.delete",    "DELETE", <<"labels", "*">>),
  V1("attachments.get",  "GET",    <<"messages", "*", "attachments", "*">>),
  V1("getProfile",       "GET",    <<"profile">>)}

GmailNativeRoutes == {
  <<"send",           "POST",   <<"gmail", "messages", "send">>>>,
  <<"get message",    "GET",    <<"gmail", "messages", "*">>>>,
  <<"delete message", "DELETE", <<"gmail", "messages", "*">>>>,
  <<"modify labels",  "POST",   <<"gmail", "messages", "*", "labels">>>>,
  <<"list labels",    "GET",    <<"gmail", "labels">>>>,
  <<"create label",   "POST",   <<"gmail", "labels">>>>,
  <<"delete label",   "DELETE", <<"gmail", "labels", "*">>>>,
  <<"get thread",     "GET",    <<"gmail", "threads", "*">>>>}

-----------------------------------------------------------------------------
(* Drive. *)

DriveReads == {
  <<"files.list", "GET", <<"files">>, {"FileList"}>>,
  <<"files.get",  "GET", <<"files", "*">>, {"File"}>>}

DriveChanges == {
  <<"files.create", "POST",   <<"files">>, {"File"}>>,
  <<"files.update", "PATCH",  <<"files", "*">>, {"File"}>>,
  <<"files.delete", "DELETE", <<"files", "*">>, {}>>,
  <<"permissions.create", "POST", <<"files", "*", "permissions">>, {"Permission"}>>}

DriveSchemas == [File |-> {}, FileList |-> {"File"}, Permission |-> {}]

DriveMeta == [
  service |-> <<"drive", "v3">>,
  methods |-> DriveReads \cup DriveChanges,
  schemas |-> DriveSchemas]

DriveRoutes == {
  <<"files.list",   "GET",    <<"drive", "v3", "files">>>>,
  <<"files.create", "POST",   <<"drive", "v3", "files">>>>,
  <<"files.get",    "GET",    <<"drive", "v3", "files", "*">>>>,
  <<"files.update", "PATCH",  <<"drive", "v3", "files", "*">>>>,
  <<"files.delete", "DELETE", <<"drive", "v3", "files", "*">>>>,
  <<"permissions.create", "POST", <<"drive", "v3", "files", "*", "permissions">>>>,
  <<"files.upload", "POST",   <<"upload", "drive", "v3", "files">>>>,
  <<"files.chunk",  "PUT",    <<"upload", "drive", "v3", "files">>>>}

DriveNativeRoutes == {
  <<"create folder",  "POST",   <<"drive", "folders">>>>,
  <<"create file",    "POST",   <<"drive", "files">>>>,
  <<"list children",  "GET",    <<"drive", "items", "*", "children">>>>,
  <<"set permission", "POST",   <<"drive", "items", "*", "permissions">>>>,
  <<"move item",      "POST",   <<"drive", "items", "*", "move">>>>,
  <<"get item",       "GET",    <<"drive", "items", "*">>>>,
  <<"delete item",    "DELETE", <<"drive", "items", "*">>>>}

-----------------------------------------------------------------------------
(* Routes that every twin has. *)

ControlRoutes == {
  <<"health",            "GET",  <<"health">>>>,
  <<"reset",             "POST", <<"control", "reset">>>>,
  <<"seed",              "POST", <<"control", "seed">>>>,
  <<"snapshot",          "GET",  <<"control", "snapshot">>>>,
  <<"restore",           "POST", <<"control", "restore">>>>,
  <<"events",            "GET",  <<"control", "events">>>>,
  <<"validate scenario", "POST", <<"control", "scenario", "validate">>>>,
  <<"list runs",         "GET",  <<"control", "scenario", "runs">>>>,
  <<"get run",           "GET",  <<"control", "scenario", "runs", "*">>>>,
  <<"bundle",            "GET",  <<"control", "scenario", "runs", "*", "bundle">>>>,
  <<"verify replay",     "POST", <<"control", "scenario", "runs", "*", "verify-replay">>>>,
  <<"diff runs",         "POST", <<"control", "scenario", "runs", "diff">>>>,
  <<"apply",             "POST", <<"control", "scenario", "apply">>>>,
  <<"apply file",        "POST", <<"control", "scenario", "apply-file">>>>,
  <<"replay",            "POST", <<"control", "scenario", "replay">>>>,
  <<"list sessions",     "GET",  <<"control", "sessions">>>>,
  <<"create session",    "POST", <<"control", "sessions">>>>,
  <<"get session",       "GET",  <<"control", "sessions", "*">>>>,
  <<"end session",       "POST", <<"control", "sessions", "*", "end">>>>,
  <<"session events",    "GET",  <<"control", "sessions", "*", "events">>>>,
  <<"session snapshot",  "GET",  <<"control", "sessions", "*", "snapshot">>>>}

StateRoutes == {
  <<"items", "GET", <<"state", "items">>>>,
  <<"item",  "GET", <<"state", "items", "*">>>>,
  <<"tree",  "GET", <<"state", "tree">>>>}

DiscoveryRoutes == {
  <<"document", "GET", <<"$discovery", "rest">>>>,
  <<"document", "GET", <<"discovery", "v1", "apis", "*", "*", "rest">>>>}

\* build_twin_router merges them all; the twin's own routes come first.
Router(api, native) ==
  api \cup native \cup StateRoutes \cup ControlRoutes \cup DiscoveryRoutes

\* A concrete path goes to the most specific pattern that matches it, a fixed
\* segment before a parameter, whatever verbs it has: without a handler for the
\* verb that is 405, without a pattern 404.
Fits(path, pattern) ==
  /\ Len(path) = Len(pattern)
  /\ \A k \in 1..Len(path) : pattern[k] \in {path[k], "*"}

Closer(p, q) ==
  \E k \in 1..Len(p) : p[k] # "*" /\ q[k] = "*" /\ SubSeq(p, 1, k - 1) = SubSeq(q, 1, k - 1)

Dispatch(routes, verb, path) ==
  LET patterns == {r[3] : r \in {s \in routes : Fits(path, s[3])}}
      best == {p \in patterns : \A q \in patterns \ {p} : Closer(p, q)}
  IN {r[1] : r \in {s \in routes : s[2] = verb /\ s[3] \in best}}

-----------------------------------------------------------------------------
(* The document, the same under both of its addresses: base is rootUrl and *)
(* servicePath, resources are nested but lose nothing.                     *)

Document(meta) ==
  [base    |-> meta.service,
   methods |-> {[op |-> m[1], verb |-> m[2], path |-> m[3], refs |-> m[4]] :
                  m \in meta.methods},
   schemas |-> meta.schemas]

\* What a client calls a method with: parameters are ids, "item_1", say.
ClientPath(doc, m, id) ==
  doc.base \o [k \in 1..Len(m.path) |-> IF m.path[k] = "*" THEN id ELSE m.path[k]]

\* Every method of a document reaches the handler of that operation and no
\* other, under the verb and the path a client builds from the document; only
\* a message called "send" is out of reach, behind messages.send.
Served(doc, routes) ==
  \A m \in doc.methods, id \in {"id", "send", "diff", "children"} :
    Dispatch(routes, m.verb, ClientPath(doc, m, id)) =
      IF m.op \in {"messages.get", "messages.delete"} /\ id = "send" THEN {} ELSE {m.op}

\* The router can be built: no verb and path twice.
OneHandler(routes) ==
  \A r, s \in routes : r[2] = s[2] /\ r[3] = s[3] => r = s

\* No reference is left open.
RefsClosed(doc) ==
  /\ \A m \in doc.methods : m.refs \subseteq DOMAIN doc.schemas
  /\ \A s \in DOMAIN doc.schemas : doc.schemas[s] \subseteq DOMAIN doc.schemas

DocumentsServed ==
  \A t \in {<<GmailMeta, Router(GmailRoutes, GmailNativeRoutes)>>,
             <<DriveMeta, Router(DriveRoutes, DriveNativeRoutes)>>} :
    Served(Document(t[1]), t[2]) /\ OneHandler(t[2]) /\ RefsClosed(Document(t[1]))
=============================================================================
