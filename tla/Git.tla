--------------------------------- MODULE Git ---------------------------------
(***************************************************************************)
(* The git inspectors of one session: git.smart-query, git.upload-pack,    *)
(* go.module.git and the five craft inspectors, in this order.  Responses  *)
(* to ls-refs fill the tags of a repository, which the inspections of      *)
(* fetch responses use; a fetch is checked out below the session's cache   *)
(* directory, which Finish removes while inspections may still run.        *)
(*                                                                         *)
(* An inspection runs in a goroutine of its own; its steps are the places  *)
(* where it takes the lock, reads a shared map or uses the cache.          *)
(***************************************************************************)
EXTENDS GitProtocol

CONSTANTS
  Downloads,
  Policies,   \* policies a session may have: permissive or not
  Requests,   \* [kind, repo, headers, gitUrl, craftUrl, proto2, gzip, pkts]
  Bodies,     \* the responses that servers may send
  Content,    \* [type, mime, pkts, tree] of each of them
  Serves,     \* the bodies that a server may send for a request
  None

VARIABLES
  permissive,
  tags,       \* UploadPackInspector.tags
  cache,      \* the session's cache directory: absent, or its checkouts
  session,    \* "active", "saving" (Finish writes the metadata) or "finished"
  known,      \* results of the artifacts the session has on record
  crashed,    \* the Go runtime ended the process
  dl          \* the downloads

vars == <<permissive, tags, cache, session, known, crashed, dl>>

Crafts == <<"rockcraft", "charmcraft", "snapcraft", "sourcecraft", "bincraft">>

\* What a server sends
Reply == [b \in Bodies |-> Content[b]]

Repos == {r.repo : r \in Requests}

Lines == UNION {Range(r.pkts) : r \in Requests \cup Range(Reply)}

Commits == {p[2] : p \in {q \in Lines : q[1] \in {"want", "1", "tag"}}}

Tags == {p[3] : p \in {q \in Lines : q[1] = "tag"}}

\* Servers answer requests.  Bodies are packets, and a line of a ref has a commit
\* and a tag.
ASSUME GitAssumption ==
  /\ Serves \in [Requests -> SUBSET Bodies]
  /\ None \notin Requests /\ None \notin Bodies /\ None \notin Commits
  /\ \A r \in Requests \cup Range(Reply) : r.pkts \in Seq(Lines)
  /\ \A p \in Lines : p[1] = "tag" => p = <<"tag", p[2], p[3]>>

Steps == {"idle", "upstream", "query", "pack", "refs", "mkdir", "unpack",
          "module", "tags", "craft", "finish", "done"}

Download ==
  [step : Steps,
   request : Requests \cup {None},
   body : Bodies \cup {None},
   claimed : BOOLEAN,                        \* Artifact.RequestPending
   todo : SUBSET Nat,                        \* refs that are still to be stored, by their places
   checkout : BOOLEAN,                       \* "git-checkout-path" is set
   match : SUBSET Tags,                      \* tags of the commit so far
   approved : SUBSET ({"smart-query", "upload-pack", "gomod"} \cup Range(Crafts)),
   rejected : BOOLEAN,
   version : Tags \cup {""},                 \* Metadata.Version, if it is a tag
   contentID : Commits \cup {""},            \* Metadata.ContentID
   result : {"none", "refused", "Approved", "Rejected"}]

\* The variables of the model range over the values the program gives them.
TypeOK ==
  /\ permissive \in Policies
  /\ tags \in [Repos -> [Tags -> Commits \cup {None}]]
  /\ cache \in (SUBSET Downloads) \cup {None}
  /\ session \in {"active", "saving", "finished"}
  /\ known \in [Bodies -> {"none", "Approved", "Rejected"}]
  /\ crashed \in BOOLEAN
  /\ dl \in [Downloads -> Download]

Fresh ==
  [step |-> "idle", request |-> None, body |-> None, claimed |-> FALSE,
   todo |-> {}, checkout |-> FALSE, match |-> {}, approved |-> {}, rejected |-> FALSE,
   version |-> "", contentID |-> "", result |-> "none"]

Init ==
  /\ permissive \in Policies
  /\ tags = [r \in Repos |-> [t \in Tags |-> None]]
  /\ cache = None
  /\ session = "active"
  /\ known = [b \in Bodies |-> "none"]
  /\ crashed = FALSE
  /\ dl = [d \in Downloads |-> Fresh]

\* A download is at a step, in a process that still runs.
At(d, step) == ~crashed /\ dl[d].step = step

Shared == <<permissive, tags, cache, session, known, crashed>>

-----------------------------------------------------------------------------
(* InspectRequest                                                          *)

\* A body that cannot be decompressed or decoded is an error, by which the
\* request fails whatever the policy.  It is only read when the headers are
\* those of the protocol.
requestError(r) ==
  r.kind = "pack" /\ r.headers /\ r.proto2 /\ (r.gzip = "bad" \/ ~decodeGitProtocol(r.pkts).ok)

\* git.upload-pack does not insist on a URL that the configuration allows.
uploadPackOpinion(r) ==
  IF r.kind = "pack" /\ r.headers /\ r.proto2
    THEN inspectRequestCommand(decodeGitProtocol(r.pkts).msgs)
    ELSE "Unknown"

smartQueryOpinion(r) == IF r.kind = "query" /\ r.proto2 /\ r.gitUrl THEN "Pending" ELSE "Unknown"

\* inspectCraftRequest reads the command that git.upload-pack noted.
craftOpinion(r) ==
  IF /\ r.kind = "pack" /\ r.headers /\ r.proto2 /\ r.craftUrl
     /\ Command(decodeGitProtocol(r.pkts).msgs) = "fetch"
    THEN "Pending" ELSE "Unknown"

RequestPending(r) ==
  LET opinion == {smartQueryOpinion(r), uploadPackOpinion(r), craftOpinion(r)}
  IN  "Pending" \in opinion /\ "Rejected" \notin opinion

InspectRequest(d) ==
  /\ At(d, "idle") /\ session # "finished"
  /\ \E r \in Requests :
       LET claimed == RequestPending(r)
           goesOn == ~requestError(r) /\ (claimed \/ permissive)
       IN  dl' = [dl EXCEPT ![d].request = r, ![d].claimed = claimed,
                            ![d].step = IF goesOn THEN "upstream" ELSE "done",
                            ![d].result = IF goesOn THEN "none" ELSE "refused"]
  /\ UNCHANGED Shared

-----------------------------------------------------------------------------
(* A response arrives; its inspection starts unless its content is on      *)
(* record or the session is gone.  The type that the server states decides *)
(* between git.smart-query and the others, and without a checkout nothing  *)
(* comes after git.upload-pack.                                            *)

Respond(d) ==
  /\ At(d, "upstream")
  /\ \E b \in Serves[dl[d].request] :
       dl' = [dl EXCEPT ![d] =
               IF session = "finished" THEN [dl[d] EXCEPT !.step = "done", !.result = "refused"]
               ELSE IF known[b] # "none"
                 THEN [dl[d] EXCEPT !.body = b, !.step = "done", !.result = known[b]]
                 ELSE [dl[d] EXCEPT !.body = b,
                         !.step = IF Reply[b].type = "advertisement" THEN "query" ELSE "pack"]]
  /\ UNCHANGED Shared

Msgs(d) == decodeGitProtocol(dl[d].request.pkts).msgs

Body(d) == Reply[dl[d].body]

\* RunArtifactInspectors: all inspectors, or those with a pending request.
Runs(opinion) == permissive \/ opinion = "Pending"

Reject(d) == [dl[d] EXCEPT !.rejected = TRUE]

\* An approval replaces the metadata of the artifact.
Approve(d, i, version, id) ==
  [dl[d] EXCEPT !.approved = dl[d].approved \cup {i}, !.version = version, !.contentID = id]

-----------------------------------------------------------------------------
(* git.smart-query                                                         *)

InspectQuery(d) ==
  LET ours == Runs(smartQueryOpinion(dl[d].request)) /\ Body(d).mime \in {"octet", "text"}
  IN  /\ At(d, "query")
      /\ dl' = [dl EXCEPT ![d] =
                 [IF ~ours THEN dl[d]
                  ELSE IF decodeProtocol(Body(d).pkts) THEN Approve(d, "smart-query", "", "")
                  ELSE Reject(d)
                    EXCEPT !.step = "finish"]]
      /\ UNCHANGED Shared

-----------------------------------------------------------------------------
(* git.upload-pack                                                         *)

IsResult(d) == Runs(uploadPackOpinion(dl[d].request)) /\ Body(d).type = "result"

\* "repository" and "command" are noted when the request is a command of the
\* second version of the protocol.
HasNotes(d) == dl[d].request.kind = "pack" /\ dl[d].request.headers /\ dl[d].request.proto2

\* inspectLsRefsResponse
inspectLsRefsResponse(d) ==
  LET reply == decodeGitProtocol(Body(d).pkts)
      refs == {i \in DOMAIN reply.msgs : reply.msgs[i][1] = "tag"}
  IN  IF Body(d).mime # "text" THEN [dl[d] EXCEPT !.step = "finish"]
      ELSE IF ~reply.ok THEN [Reject(d) EXCEPT !.step = "finish"]
      ELSE [dl[d] EXCEPT !.todo = refs, !.step = "refs"]

\* A bug: the number of refs is left to the check of the request.
inspectFetchResponseAny(d) ==
  LET reply == decodeGitProtocol(Body(d).pkts)
  IN  IF Body(d).mime \notin {"octet", "text"} THEN [dl[d] EXCEPT !.step = "finish"]
      ELSE IF reply.ok /\ fetchResponseIsShallow(reply.msgs) /\ Wants(Msgs(d)) # {}
        THEN [dl[d] EXCEPT !.step = "mkdir"]
        ELSE [Reject(d) EXCEPT !.step = "finish"]

\* inspectFetchResponse up to the checkout
inspectFetchResponse(d) ==
  LET reply == decodeGitProtocol(Body(d).pkts)
  IN  IF Body(d).mime \notin {"octet", "text"} THEN [dl[d] EXCEPT !.step = "finish"]
      ELSE IF /\ NumWants(Msgs(d)) = 1
              /\ reply.ok /\ fetchResponseIsShallow(reply.msgs)
              /\ getRefFromWants(Msgs(d)) # ""
        THEN [dl[d] EXCEPT !.step = "mkdir"]
        ELSE [Reject(d) EXCEPT !.step = "finish"]

inspectResponseCommand(d) ==
  CASE Command(Msgs(d)) = "ls-refs" -> inspectLsRefsResponse(d)
    [] Command(Msgs(d)) = "fetch"   -> inspectFetchResponse(d)
    [] OTHER                        -> [Reject(d) EXCEPT !.step = "finish"]

InspectPack(d) ==
  /\ At(d, "pack")
  /\ dl' = [dl EXCEPT ![d] =
              IF ~IsResult(d) THEN [dl[d] EXCEPT !.step = "finish"]
              ELSE IF ~HasNotes(d) THEN [Reject(d) EXCEPT !.step = "finish"]
              ELSE inspectResponseCommand(d)]
  /\ UNCHANGED Shared

\* Somebody reads the tags of a repository without the lock: an inspection of
\* go.module.git, or Finish, which writes the annotations of the artifacts on
\* record.
Reading(r) ==
  \/ \E e \in Downloads : dl[e].step = "tags" /\ dl[e].request.repo = r
  \/ /\ session = "saving"
     /\ \E e \in Downloads : /\ dl[e].step = "done" /\ dl[e].checkout
                             /\ dl[e].request.repo = r /\ known[dl[e].body] # "none"

\* A bug: the tags of all repositories are kept in one map.
storedAnywhere(r, p) == [q \in Repos |-> [tags[q] EXCEPT ![p[3]] = p[2]]]

stored(r, p) == [tags EXCEPT ![r][p[3]] = p[2]]

\* The next ref of the response is stored under the lock.  The runtime may notice
\* that the map is being read and end the process.
StoreRef(d) ==
  LET r == dl[d].request.repo
      i == Min(dl[d].todo)
  IN  /\ At(d, "refs") /\ dl[d].todo # {}
      /\ tags' = stored(r, decodeGitProtocol(Body(d).pkts).msgs[i])
      /\ crashed' \in IF Reading(r) THEN BOOLEAN ELSE {FALSE}
      /\ dl' = [dl EXCEPT ![d].todo = dl[d].todo \ {i}]
      /\ UNCHANGED <<permissive, cache, session, known>>

RefsStored(d) ==
  /\ At(d, "refs") /\ dl[d].todo = {}
  /\ dl' = [dl EXCEPT ![d] = [Approve(d, "upload-pack", "", "") EXCEPT !.step = "finish"]]
  /\ UNCHANGED Shared

\* unpackAndCheckout: MkdirAll makes the cache directory, again if need be, ...
MakeCache(d) ==
  /\ At(d, "mkdir")
  /\ cache' = IF cache = None THEN {} ELSE cache
  /\ dl' = [dl EXCEPT ![d].step = "unpack"]
  /\ UNCHANGED <<permissive, tags, session, known, crashed>>

\* ... and MkdirTemp, git init-db, git-unpack-objects and git checkout fail
\* without it.  A checkout that failed stays where it is.
UnpackAndCheckout(d) ==
  LET good == cache # None /\ Unpacks(Body(d).pkts, getRefFromWants(Msgs(d)))
  IN  /\ At(d, "unpack")
      /\ cache' = IF cache = None THEN None ELSE cache \cup {d}
      /\ dl' = [dl EXCEPT ![d].checkout = good, ![d].rejected = dl[d].rejected \/ ~good,
                          ![d].step = IF good THEN "module" ELSE "finish"]
      /\ UNCHANGED <<permissive, tags, session, known, crashed>>

-----------------------------------------------------------------------------
(* go.module.git and the craft inspectors                                  *)

\* The files of the checkout, while it is there.
Tree(d) == IF cache # None /\ d \in cache THEN Body(d).tree ELSE <<>>

Exists(d, path) == path \in DOMAIN Tree(d)

TagsOf(d) == {t \in Tags : tags[dl[d].request.repo][t] = getRefFromWants(Msgs(d))}

\* No origin is configured for go.module.git, so it runs in permissive
\* sessions only.
InspectModule(d) ==
  /\ At(d, "module")
  /\ dl' = [dl EXCEPT ![d] =
              IF permissive /\ Exists(d, "go.mod")
                THEN [dl[d] EXCEPT !.match = TagsOf(d), !.step = "tags"]
                ELSE [dl[d] EXCEPT !.step = "craft"]]
  /\ UNCHANGED Shared

\* getVersionTag: some tag of the commit, in the random order of a Go map that
\* may have changed since the iteration began.
getVersionTag(d) ==
  dl[d].match \cup TagsOf(d) \cup IF dl[d].match \cap TagsOf(d) = {} THEN {""} ELSE {}

ApproveModule(d) ==
  /\ At(d, "tags")
  /\ \E version \in getVersionTag(d) :
       dl' = [dl EXCEPT ![d] =
                [Approve(d, "gomod", version, "") EXCEPT !.match = {}, !.step = "craft"]]
  /\ UNCHANGED Shared

\* getSnapcraftYamlPath and the fixed paths of the others
Candidates(c) ==
  IF c = "snapcraft"
    THEN <<"snap/snapcraft.yaml", "snapcraft.yaml", "build-aux/snap/snapcraft.yaml">>
    ELSE << CASE c = "rockcraft"   -> "rockcraft.yaml"
              [] c = "charmcraft"  -> "charmcraft.yaml"
              [] c = "sourcecraft" -> "sourcecraft.yaml"
              [] c = "bincraft"    -> "bincraft.yaml" >>

YamlPath(d, c) ==
  LET i == SelectInSeq(Candidates(c), LAMBDA path : Exists(d, path))
  IN  IF i = 0 THEN None ELSE Candidates(c)[i]

getSingleFetchedRef(msgs) ==
  IF Cardinality(Wants(msgs)) = 1 THEN CHOOSE w \in Wants(msgs) : TRUE ELSE ""

\* The five craft inspectors one after the other: one whose file is there and
\* decodes approves, one whose file does not decode rejects.  Their versions
\* come from the file and not from a tag.
InspectCrafts(d) ==
  LET found == {c \in Range(Crafts) : Runs(craftOpinion(dl[d].request)) /\ YamlPath(d, c) # None}
      good == {c \in found : Body(d).tree[YamlPath(d, c)] = "good"}
      x == dl[d]
  IN  /\ At(d, "craft")
      /\ dl' = [dl EXCEPT ![d].approved = x.approved \cup good,
                          ![d].rejected = x.rejected \/ good # found,
                          ![d].version = IF good = {} THEN x.version ELSE "",
                          ![d].contentID = IF good = {} THEN x.contentID
                                           ELSE getSingleFetchedRef(Msgs(d)),
                          ![d].step = "finish"]
      /\ UNCHANGED Shared

-----------------------------------------------------------------------------
(* The end of an inspection, and of the session                            *)

verdict(x) == IF x.claimed /\ x.approved # {} /\ ~x.rejected THEN "Approved" ELSE "Rejected"

CompleteInspection(d) ==
  LET x == dl[d]
  IN  /\ At(d, "finish")
      /\ dl' = [dl EXCEPT ![d].step = "done",
                          ![d].result = IF session = "finished" THEN "refused" ELSE verdict(x)]
      /\ known' = IF session # "finished" /\ known[x.body] = "none"
                    THEN [known EXCEPT ![x.body] = verdict(x)] ELSE known
      /\ UNCHANGED <<permissive, tags, cache, session, crashed>>

\* Session.Finish: the metadata of the artifacts are saved, ...
SaveMetadata ==
  /\ ~crashed /\ session = "active"
  /\ session' = "saving"
  /\ UNCHANGED <<permissive, tags, cache, known, crashed, dl>>

\* A bug: the cache directory is left where it is.
FinishKeepCache ==
  /\ ~crashed /\ session = "saving"
  /\ session' = "finished"
  /\ UNCHANGED <<permissive, tags, cache, known, crashed, dl>>

\* ... the cache directory is removed and the session discarded.
Finish ==
  /\ ~crashed /\ session = "saving"
  /\ session' = "finished"
  /\ cache' = None
  /\ UNCHANGED <<permissive, tags, known, crashed, dl>>

\* Inspections that were still writing below the cache directory may keep
\* RemoveAll from finishing; the session is not discarded then.
FinishFails ==
  /\ ~crashed /\ session = "saving"
  /\ cache # None /\ \E d \in Downloads : dl[d].step = "unpack"
  /\ session' = "active"
  /\ cache' = {}
  /\ UNCHANGED <<permissive, tags, known, crashed, dl>>

-----------------------------------------------------------------------------

Inspect(d) ==
  \/ InspectQuery(d)
  \/ InspectPack(d)
  \/ StoreRef(d)
  \/ RefsStored(d)
  \/ MakeCache(d)
  \/ UnpackAndCheckout(d)
  \/ InspectModule(d)
  \/ ApproveModule(d)
  \/ InspectCrafts(d)
  \/ CompleteInspection(d)

Next ==
  \/ \E d \in Downloads : InspectRequest(d) \/ Respond(d) \/ Inspect(d)
  \/ SaveMetadata
  \/ Finish
  \/ FinishFails

Spec == Init /\ [][Next]_vars
-----------------------------------------------------------------------------
(* Correctness                                                             *)

\* The client wanted commit w and nothing else, by its digest and at depth 1, the
\* server said that it sent a shallow history, the pack has the commit, and it is
\* what a craft inspector puts on record.
FetchedAlone(d, w) ==
  LET reply == decodeGitProtocol(Body(d).pkts)
  IN  /\ Values(Msgs(d), "want") = {w} /\ Values(Msgs(d), "want-ref") = {}
      /\ IsShallow(Msgs(d)) /\ Values(reply.msgs, "shallow") # {}
      /\ w \in Values(reply.rest, "1")
      /\ dl[d].contentID = IF dl[d].approved \cap Range(Crafts) # {} THEN w ELSE ""

\* Every approved response was inspected and approved as an advertisement, as a
\* list of refs or as a fetch of one commit: in this download or, where a verdict
\* on record is used again, in an earlier one of the same content.  The check of a
\* fetch is spread over the inspections of request and response: alone, the one of
\* the request lets a want-ref through.  (Content that an earlier download fetched
\* as one commit is approved for a client that asks for it by a want-ref.)
OneCommit ==
  \A d \in Downloads :
    dl[d].result = "Approved" =>
      \E e \in Downloads :
        /\ dl[e].result = "Approved" /\ dl[e].body = dl[d].body
        /\ dl[d].approved # {} => e = d
        /\ \/ dl[e].approved = {"smart-query"} /\ Body(e).type = "advertisement"
           \/ dl[e].approved = {"upload-pack"} /\ Command(Msgs(e)) = "ls-refs"
           \/ /\ dl[e].approved # {} /\ dl[e].checkout
              /\ \E w \in Commits : FetchedAlone(e, w)

\* The version of a Go module is a tag that an ls-refs response of the same
\* repository gave for the commit that was fetched, although the map of tags
\* is shared by all inspections and may be written to while it is searched.
VersionTag ==
  \A d \in Downloads :
    dl[d].version # "" =>
      \E e \in Downloads, w \in Wants(Msgs(d)) :
        /\ dl[e].request # None /\ dl[e].request.repo = dl[d].request.repo
        /\ dl[e].body # None /\ <<"tag", w, dl[d].version>> \in Range(Body(e).pkts)

\* Finish removes the checkouts of every artifact on record; what is left of
\* the cache belongs to inspections that it overtook, whose clients get an
\* error.
CacheLeft ==
  session = "finished" /\ cache # None =>
    \A d \in cache : dl[d].step = "done" => dl[d].result = "refused"

\* Responses of git servers are approved only if the configuration allows the
\* URL, for git itself or for the crafts.
ConfiguredOnly ==
  \A d \in Downloads :
    dl[d].result = "Approved" => dl[d].request.gitUrl \/ dl[d].request.craftUrl

\* Inspections that run at the same time do not bring the process down.
NoCrash == ~crashed
=============================================================================
