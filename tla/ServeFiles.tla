----------------------------- MODULE ServeFiles ------------------------------
(***************************************************************************)
(* The file server (mongoose.c: mg_serve_http, mg_send_http_file) with     *)
(* WebDAV: one request after the other on a tree of files, which requests  *)
(* change.  A path is the sequence of its names under the document root.   *)
(***************************************************************************)
EXTENDS Integers, Sequences, FiniteSets, SequencesExt

CONSTANTS
    SfSetups,       \* trees and options to start with, and the second of the start
    SfRequests,     \* what clients ask for
    SfCalls,        \* how many requests there are
    SfLast          \* the last second

VARIABLE sf

Pw == "pw"          \* the name of a directory's own password file
Outside == <<"..">> \* a destination that is not under the root
Missing == <<-1>>   \* a password file that is not there
Absent == [kind |-> "none", data |-> <<>>, mtime |-> 0]
FileNode(data, t) == [kind |-> "file", data |-> data, mtime |-> t]
DirNode(t) == [kind |-> "dir", data |-> <<>>, mtime |-> t]

Exists(fs, p) == fs[p].kind # "none"
IsFile(fs, p) == fs[p].kind = "file"
IsDir(fs, p) == fs[p].kind = "dir"
Under(p, q) == IsPrefix(p, q) /\ p # q

\* A tree has the directory of every path it has, and every file is in a directory that is there; clients ask for
\* paths of the trees, and move to one or out of the root.  No file is from the future.
SfNodes == [kind : {"none", "file", "dir"}, data : Seq(0..9), mtime : Nat]
ASSUME SfAssumption ==
    /\ SfCalls \in Nat /\ SfLast \in Nat
    /\ \A s \in SfSetups :
          /\ s.fs \in [DOMAIN s.fs -> SfNodes] /\ s.now \in Nat
          /\ \A p \in DOMAIN s.fs : /\ p \in Seq(STRING) /\ Front(p) \in DOMAIN s.fs
                                    /\ s.fs[p].mtime <= s.now /\ ~IsPrefix(Outside, p)
                                    /\ Exists(s.fs, p) /\ p # <<>> => IsDir(s.fs, Front(p))
          /\ s.opts.index \in Seq(STRING)
          /\ \A r \in SfRequests : r.uri \in DOMAIN s.fs /\ r.to \in DOMAIN s.fs \cup {Outside}
    /\ \A r \in SfRequests : /\ r.body \in Seq(0..9) /\ r.range \in Seq(Int)
                             /\ r.dest \in {"none", "malformed", "names"}

-----------------------------------------------------------------------------
(* What is asked for.  r has the method, the names of the URI and whether a *)
(* slash ends it, the user whose password is given (0: none), what the      *)
(* client has seen (cond), a range, a body and its announced length, and a  *)
(* destination.                                                             *)

NothingYet == [status |-> 0, sent |-> Absent, at |-> <<>>, listed |-> {}]

SfInit ==
    /\ \E s \in SfSetups : sf = [fs |-> s.fs, opts |-> s.opts, first |-> s.fs, was |-> s.fs, now |-> s.now, left |-> SfCalls,
                                 asked |-> [method |-> "none"], reply |-> NothingYet]

Dav == {"PUT", "DELETE", "MKCOL", "PROPFIND", "MOVE"}
IsDav(r) == sf.opts.webdav /\ r.method \in Dav
IsCreation(r) == r.method \in {"PUT", "MKCOL"}

\* mg_is_file_hidden, of the last component; the exception is for the names "." and "..".
HiddenName(name) == name = Pw \/ name \in sf.opts.hidden
HiddenPath(p) == p # <<>> /\ HiddenName(Last(p))

\* mg_uri_to_local_path ends at the first file; what is left of the URI is the path info (Uris!LocalPath).
Files(r) == {k \in 0..Len(r.uri) : IsFile(sf.fs, SubSeq(r.uri, 1, k))}
PathOf(r) == LET files == Files(r) IN IF files = {} THEN r.uri ELSE SubSeq(r.uri, 1, Min(files))
HasPathInfo(r) == Files(r) # {} /\ (Len(PathOf(r)) < Len(r.uri) \/ r.slash)

\* mg_find_index_file: the first of the list that is a file.
Index(r) == {i \in DOMAIN sf.opts.index : LET p == PathOf(r) \o <<sf.opts.index[i]>> IN p \in DOMAIN sf.fs /\ IsFile(sf.fs, p)}
HasIndex(r) == IsDir(sf.fs, PathOf(r)) /\ Index(r) # {}
Target(r) == IF HasIndex(r) THEN PathOf(r) \o <<sf.opts.index[Min(Index(r))]>> ELSE PathOf(r)
IsCgi(r) == Target(r) # <<>> /\ Last(Target(r)) \in sf.opts.cgi

\* mg_http_is_authorized: a password file that cannot be opened protects nothing; in one that can, the user
\* has to be there (mg_check_digest_auth).
Admits(lines, r) == lines = Missing \/ r.user \in Range(lines)
DirectoryPasswords(r) ==
    LET dir == IF IsDir(sf.fs, PathOf(r)) THEN PathOf(r) ELSE Front(PathOf(r))
        p == dir \o <<Pw>>
    IN  IF p \in DOMAIN sf.fs /\ Exists(sf.fs, p) THEN sf.fs[p].data ELSE Missing
Authorized(r) == sf.opts.domain => Admits(sf.opts.global, r) /\ Admits(DirectoryPasswords(r), r)
DavAuthorized(r) == sf.opts.dav # "none" /\ (sf.opts.dav = "file" /\ sf.opts.domain => Admits(sf.opts.davUsers, r))

\* The node that decides whether the client has the file already, and the etag of its time and length.
Stat(r) == sf.fs[Target(r)]
Etag(node) == <<node.mtime, Len(node.data)>>
Seen(r) == sf.first[Target(r)]
NotModified(r) == \/ r.cond = "etag" /\ Etag(Stat(r)) = Etag(Seen(r))
                  \/ r.cond = "date" /\ Stat(r).mtime <= Seen(r).mtime

-----------------------------------------------------------------------------
(* The answer.                                                              *)

Answer(r, reply, fs) ==
    sf' = [sf EXCEPT !.fs = fs, !.was = sf.fs, !.left = @ - 1, !.asked = r, !.reply = reply]

Status(n) == [NothingYet EXCEPT !.status = n]

\* The requests that mg_serve_http and mg_send_http_file turn away or pass on, in this order.
Refusal(r) ==
    IF sf.opts.closed THEN 403
    ELSE IF r.uri # <<>> /\ r.uri[1] \in sf.opts.forwards THEN 1
    ELSE IF sf.opts.redirects THEN 301
    ELSE IF IsDir(sf.fs, PathOf(r)) /\ ~r.slash /\ ~IsDav(r) THEN 301
    ELSE IF HasPathInfo(r) /\ ~IsCgi(r) THEN 501
    ELSE IF IsDav(r) /\ ~sf.opts.davRoot THEN 501
    ELSE IF ~Authorized(r) THEN 401
    ELSE IF IsCgi(r) THEN 2
    ELSE IF (~Exists(sf.fs, PathOf(r)) \/ HiddenPath(PathOf(r))) /\ ~IsCreation(r) THEN 404
    ELSE IF IsDav(r) /\ r.method # "PROPFIND" /\ ~DavAuthorized(r) THEN 401
    ELSE 0

\* An error, a redirection, or (1, 2) what the upstream server or a CGI program answers.
Refuse(r) == LET status == Refusal(r) IN status # 0 /\ Answer(r, Status(status), sf.fs)

\* A request that goes to its handler.
Passes(r, method) == r.method = method /\ IsDav(r) /\ Refusal(r) = 0

\* mg_scan_directory
Shown(dir) == {Last(p) : p \in {q \in DOMAIN sf.fs : Under(dir, q) /\ Len(q) = Len(dir) + 1
                                                    /\ Exists(sf.fs, q) /\ ~HiddenName(Last(q))}}

\* mg_handle_propfind: of the index file, where there is one.
Propfind(r) ==
    LET dir == IsDir(sf.fs, Target(r))
    IN  /\ Passes(r, "PROPFIND")
        /\ Answer(r, IF dir /\ ~sf.opts.listing THEN Status(403)
                     ELSE [Status(207) EXCEPT !.at = Target(r), !.listed = IF dir /\ r.deep THEN Shown(PathOf(r)) ELSE {}], sf.fs)

\* mg_handle_mkcol; the path's directory is there, or is not, or the operating system lets nothing be made in it.
Mkcol(r) ==
    LET p == PathOf(r)
        parent == p = <<>> \/ IsDir(sf.fs, Front(p))
    IN  /\ Passes(r, "MKCOL")
        /\ IF r.body # <<>> THEN Answer(r, Status(415), sf.fs)
           ELSE IF Exists(sf.fs, p) THEN Answer(r, Status(405), sf.fs)
           ELSE IF ~parent THEN Answer(r, Status(409), sf.fs)
           ELSE \/ Answer(r, Status(201), [sf.fs EXCEPT ![p] = DirNode(sf.now)])
                \/ \E status \in {403, 500} : Answer(r, Status(status), sf.fs)

\* Wrong: all entries of a directory are removed, the hidden ones too.
RemoveDirectoryAll(fs, dir) == [p \in DOMAIN fs |-> IF IsPrefix(dir, p) THEN Absent ELSE fs[p]]

\* mg_remove_directory: hidden entries stay, and so does a directory in which one is left.
RemoveDirectory(fs, dir) ==
    LET stays == {p \in DOMAIN fs : Exists(fs, p) /\ Under(dir, p) /\ \E k \in Len(dir) + 1..Len(p) : HiddenName(p[k])}
    IN  [p \in DOMAIN fs |-> IF IsPrefix(dir, p) /\ ~\E q \in stays : IsPrefix(p, q) THEN Absent ELSE fs[p]]

\* mg_handle_delete: a directory's removal is always a success; that of a file may be refused.
Delete(r) ==
    LET p == PathOf(r)
    IN  /\ Passes(r, "DELETE")
        /\ \/ Answer(r, Status(204), IF IsDir(sf.fs, p) THEN RemoveDirectory(sf.fs, p) ELSE [sf.fs EXCEPT ![p] = Absent])
           \/ ~IsDir(sf.fs, p) /\ Answer(r, Status(423), sf.fs)

\* mg_create_itermediate_directories, as far as names of length n.
MadeDirectories(fs, path, n) ==
    [p \in DOMAIN fs |-> IF Under(p, path) /\ Len(p) <= n /\ ~Exists(fs, p) THEN DirNode(sf.now) ELSE fs[p]]

\* mg_handle_put, with the transfer of the body, which is all there: the directories are made before anything
\* else is looked at, and those above one that cannot be made stay.  A range leaves zeros before it.
Put(r) ==
    LET p == PathOf(r)
        made == MadeDirectories(sf.fs, p, Len(p))
        last == IF r.range = <<>> THEN Len(r.body)
                ELSE IF Last(r.range) > Head(r.range) THEN Last(r.range) - Head(r.range) + 1 ELSE Len(r.body) - Head(r.range)
        start == IF r.range = <<>> THEN <<>> ELSE [i \in 1..Head(r.range) |-> 0]
        data == IF last <= 0 THEN <<>> ELSE start \o SubSeq(r.body, 1, IF last < Len(r.body) THEN last ELSE Len(r.body))
        status == IF r.range # <<>> THEN 206 ELSE IF Exists(sf.fs, p) THEN 200 ELSE 201
    IN  /\ Passes(r, "PUT")
        /\ \/ \E d \in DOMAIN sf.fs : /\ Under(d, p) /\ ~Exists(sf.fs, d)
                                     /\ Answer(r, Status(500), MadeDirectories(sf.fs, p, Len(d) - 1))
           \/ ~r.length /\ Answer(r, Status(411), made)
           \/ r.length /\ Answer(r, Status(500), made)
           \/ r.length /\ ~IsDir(made, p) /\ Answer(r, Status(status), [made EXCEPT ![p] = FileNode(data, sf.now)])

\* rename of the operating system, of what is at src to dst.
CanRename(fs, src, dst) ==
    /\ dst = Outside \/ (dst # <<>> /\ IsDir(fs, Front(dst)) /\ ~Under(src, dst))
    /\ src # <<>>
    /\ dst # Outside /\ Exists(fs, dst) =>
          \/ src = dst
          \/ IsFile(fs, src) /\ IsFile(fs, dst)
          \/ IsDir(fs, src) /\ IsDir(fs, dst) /\ \A q \in DOMAIN fs : Under(dst, q) => ~Exists(fs, q)
Renamed(fs, src, dst) ==
    LET goes(p) == SubSeq(p, Len(dst) + 1, Len(p))
    IN  [p \in DOMAIN fs |-> IF dst # Outside /\ IsPrefix(dst, p)
                             THEN (IF src \o goes(p) \in DOMAIN fs THEN fs[src \o goes(p)] ELSE Absent)
                             ELSE IF IsPrefix(src, p) THEN Absent ELSE fs[p]]

\* mg_handle_move: the destination is looked at by nothing but rename, which the operating system may refuse.
Move(r) ==
    LET p == PathOf(r)
    IN  /\ Passes(r, "MOVE")
        /\ CASE r.dest = "none" -> Answer(r, Status(411), sf.fs)
             [] r.dest = "malformed" -> Answer(r, Status(500), sf.fs)
             [] r.dest = "names" -> \/ CanRename(sf.fs, p, r.to) /\ Answer(r, Status(200), Renamed(sf.fs, p, r.to))
                                    \/ Answer(r, Status(418), sf.fs)

Options(r) == r.method = "OPTIONS" /\ ~IsDav(r) /\ Refusal(r) = 0 /\ Answer(r, Status(200), sf.fs)

\* mg_http_serve_file: which part of a file's data a range asks for, [status, data].
Ranged(data, range) ==
    LET r1 == Head(range)
        r2 == IF Len(range) = 1 THEN Len(data) - 1 ELSE Last(range)
    IN  IF range = <<>> \/ r1 < 0 \/ (Len(range) = 2 /\ r2 < 0) THEN [status |-> 200, data |-> data]
        ELSE IF r1 > r2 \/ r2 >= Len(data) THEN [status |-> 416, data |-> <<>>]
        ELSE [status |-> 206, data |-> SubSeq(data, r1 + 1, r2 + 1)]

\* Every other method is answered as GET.  What is not there is asked for only where the build has no WebDAV, with
\* a method that creates; then the node that decides about "not modified" has never been read.
Get(r) ==
    LET node == Stat(r)
        part == Ranged(node.data, r.range)
        found == Exists(sf.fs, Target(r))
    IN  /\ ~IsDav(r) /\ r.method # "OPTIONS" /\ Refusal(r) = 0
        /\ IF IsDir(sf.fs, Target(r))
           THEN Answer(r, IF sf.opts.listing THEN [Status(200) EXCEPT !.listed = Shown(Target(r)), !.at = Target(r)]
                          ELSE Status(403), sf.fs)
           ELSE \/ ~found /\ Answer(r, Status(404), sf.fs)
                \/ ~found /\ r.cond # "none" /\ Answer(r, Status(304), sf.fs)
                \/ found /\ NotModified(r) /\ Answer(r, [Status(304) EXCEPT !.at = Target(r)], sf.fs)
                \/ found /\ ~NotModified(r)
                   /\ Answer(r, [Status(part.status) EXCEPT !.sent = [node EXCEPT !.data = part.data], !.at = Target(r)], sf.fs)

\* A second passes.
SfTick == sf.now < SfLast /\ sf.left > 0 /\ sf' = [sf EXCEPT !.now = @ + 1]

SfServe(r) == \/ Refuse(r) \/ Propfind(r) \/ Mkcol(r) \/ Delete(r) \/ Put(r) \/ Move(r) \/ Options(r) \/ Get(r)
SfNext == SfTick \/ (sf.left > 0 /\ \E r \in SfRequests : SfServe(r))

SfSpec == SfInit /\ [][SfNext]_sf

-----------------------------------------------------------------------------
SfTypeOK == \A p \in DOMAIN sf.fs : sf.fs[p] \in SfNodes

\* What is in a directory that is there: no request leaves a file without its directory.
Rooted == \A p \in DOMAIN sf.fs : Exists(sf.fs, p) /\ p # <<>> => IsDir(sf.fs, Front(p))

\* The password files that were in force for a path, when the reply was given.
InForce(p) == {lines \in {sf.opts.global} \cup {sf.was[q].data : q \in {d \o <<Pw>> : d \in {p, Front(p)}} \cap
                                                                   {q \in DOMAIN sf.was : Exists(sf.was, q) /\ IsDir(sf.was, Front(q))}} :
                  lines # Missing}

\* The two ways by which the code sends a hidden file all the same: for a method that creates, in a build without
\* WebDAV, and as an index file.  The documentation knows of neither: see OptionsExplained.
HiddenSent(r, p) == IsCreation(r) \/ Last(p) \in Range(sf.opts.index)

\* What is sent is what the file holds, or the part of it that was asked for; it is not a hidden file, but for
\* HiddenSent; and the password files in force for it have the user in them.
SentRightly ==
    LET r == sf.asked
        node == sf.was[sf.reply.at]
    IN  sf.reply.sent # Absent =>
            /\ node.kind = "file"
            /\ sf.reply.status = 200 => sf.reply.sent = node
            /\ sf.reply.status = 206 => \A i \in DOMAIN sf.reply.sent.data : sf.reply.sent.data[i] = node.data[i + Head(r.range)]
            /\ sf.reply.at = r.uri \/ (r.slash /\ Front(sf.reply.at) = r.uri /\ Last(sf.reply.at) \in Range(sf.opts.index))
            /\ HiddenPath(sf.reply.at) => HiddenSent(r, sf.reply.at)
            /\ sf.opts.domain => \A lines \in InForce(sf.reply.at) : r.user \in Range(lines)

\* Lists have every entry of a directory that is not hidden, and no other.
ListedRightly ==
    sf.reply.listed # {} =>
        /\ sf.opts.listing
        /\ sf.reply.listed = {n \in {Last(p) : p \in {q \in DOMAIN sf.was : Under(sf.reply.at, q) /\ Len(q) = Len(sf.reply.at) + 1
                                                                         /\ Exists(sf.was, q)}} : ~HiddenName(n)}

\* A client that is told to keep what it has, has what the file holds, but for two kinds of change that the code
\* cannot see: one within the second of what the client has, and an older file put in the place by MOVE, which
\* If-Modified-Since does not tell.  A file changed in any later second is sent.
KeptRightly ==
    LET node == sf.was[sf.reply.at]
        had == sf.first[sf.reply.at]
    IN  sf.reply.status = 304 /\ sf.reply.at # <<>> =>
            \/ node.data = had.data
            \/ node.mtime = had.mtime
            \/ /\ sf.asked.cond = "date" /\ node.mtime < had.mtime
               /\ \E p \in DOMAIN sf.first \ {sf.reply.at} : sf.first[p] = node

\* The tree changes only where WebDAV is built in, has a root and admits the user; the reply then says what
\* happened: 201 for what was not there and is, 204 for what is gone, but for hidden files, 200 for a file
\* that holds the body, or for what has moved, with all that is under it, and is the same in its new place.  An
\* error leaves everything as it was, but for the directories on the way to a file.
ChangedRightly ==
    LET r == sf.asked
        gone == {p \in DOMAIN sf.fs : Exists(sf.was, p) /\ ~Exists(sf.fs, p)}
        new == {p \in DOMAIN sf.fs : ~Exists(sf.was, p) /\ Exists(sf.fs, p)}
        other == {p \in DOMAIN sf.fs \ (gone \cup new) : sf.was[p] # sf.fs[p]}
        status == sf.reply.status
        from(p) == r.uri \o SubSeq(p, Len(r.to) + 1, Len(p))
    IN  /\ sf.fs # sf.was => sf.opts.webdav /\ r.method \in Dav /\ sf.opts.davRoot /\ sf.opts.dav # "none"
                             /\ (sf.opts.domain /\ sf.opts.dav = "file" => Admits(sf.opts.davUsers, r))
        /\ status >= 400 /\ sf.fs # sf.was => r.method = "PUT" /\ gone = {} /\ other = {}
                                                /\ \A p \in new : Under(p, r.uri) /\ IsDir(sf.fs, p)
        /\ status = 201 => r.uri \in new /\ gone = {} /\ (r.method = "PUT" => sf.fs[r.uri].data = r.body)
        /\ status = 204 => /\ new = {} /\ \A p \in gone : IsPrefix(r.uri, p) /\ ~\E k \in Len(r.uri) + 1..Len(p) : HiddenName(p[k])
                           /\ Exists(sf.fs, r.uri) => \E p \in DOMAIN sf.fs : Under(r.uri, p) /\ Exists(sf.fs, p) /\ HiddenPath(p)
        /\ status = 200 /\ r.method = "PUT" /\ sf.opts.webdav => sf.fs[r.uri].data = r.body /\ gone = {} /\ new = {}
        /\ status = 200 /\ r.method = "MOVE" /\ sf.opts.webdav =>
              \A p \in DOMAIN sf.fs :
                 /\ IsPrefix(r.to, p) /\ from(p) \in DOMAIN sf.was => sf.fs[p] = sf.was[from(p)]
                 /\ IsPrefix(r.uri, p) /\ ~IsPrefix(r.to, p) => ~Exists(sf.fs, p)
                 /\ ~IsPrefix(r.uri, p) /\ ~IsPrefix(r.to, p) => sf.fs[p] = sf.was[p]

\* Whatever requests are made, one after the other: files are sent to whom they may be, the tree stays whole and
\* changes as the replies say, and hidden files outlive the directories they are in (mg_send_http_file).  What the
\* documentation of the options says besides, and the code does not do, is in OptionsExplained.
Served == Rooted /\ SentRightly /\ ListedRightly /\ KeptRightly /\ ChangedRightly

\* "DAV passwords file. If NULL, DAV requests are going to fail." (mongoose.h:4807), "Glob pattern for the files
\* to hide." (4812), and what "Not Modified" says (mongoose.c:8069).  The code violates all three: PROPFIND is handled
\* before the file is looked at (8034), hidden files are sent as HiddenSent says, and KeptRightly says which changes
\* are taken for none.
OptionsExplained ==
    /\ sf.opts.dav = "none" /\ sf.asked.method \in Dav /\ sf.opts.webdav => sf.reply.status \notin 200..299
    /\ sf.reply.sent # Absent => ~HiddenPath(sf.reply.at)
    /\ sf.reply.status = 304 /\ sf.reply.at # <<>> => sf.was[sf.reply.at].data = sf.first[sf.reply.at].data
=============================================================================
