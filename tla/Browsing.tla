-------------------------------- MODULE Browsing ------------------------------
(***************************************************************************)
(* Urls and paths: a peer follows the links of directory pages and uploads *)
(* into directories.  The links are made by build_dir_list, the paths by   *)
(* concatenate_path, http_handler's callees and decode_percent_encoding_url*)
(* (main.cpp, utils.cpp, filesystem_ops.cpp); the peer sends a link and    *)
(* the url of the page's form back as they stand in the page.  Bytes are   *)
(* their codes.                                                            *)
(***************************************************************************)
EXTENDS UrlDecoding, Strings

CONSTANTS
  Roots,      \* the program's third argument
  Trees,      \* file systems: functions from places to "dir", "reg", "link"
  StartUrls,  \* urls that the peer begins with
  FileNames   \* names of the files it uploads

Slash == 47
Dot == 46

(* The kernel's part: the place that a path leads to, the names on the way *)
(* to it; stat follows symbolic links, and finds no file behind a slash.   *)
Place(path) == Split(path, <<Slash>>)

(* What a directory's entry can be called; what the kernel reads otherwise, *)
(* ".", ".." and a byte 0, the end of a C string, is left out ...           *)
IsName(n) ==
  /\ n \in Seq(Nat) \ {<<>>, <<Dot>>, <<Dot, Dot>>}
  /\ \A k \in DOMAIN n : n[k] \notin {0, Slash}

(* ... of what is sent, of what that is decoded to, and, since a form sends *)
(* the decoded url, of what that is decoded to once more.                   *)
HasNames(path) == \A k \in DOMAIN Place(path) : IsName(Place(path)[k])
Sendable(u) ==
  /\ HasNames(u)
  /\ WellFormed(u) =>
       /\ HasNames(Decoded(u))
       /\ WellFormed(Decoded(u)) => HasNames(Decoded(Decoded(u)))

ASSUME BrowsingAssumption ==
  /\ Roots \subseteq Seq(Nat) \ {<<>>}
  /\ StartUrls \subseteq Seq(Nat) /\ (\A u \in StartUrls : Sendable(u))
  /\ \A n \in FileNames : IsName(n) /\ Sendable(n)
  /\ \A t \in Trees : \A p \in DOMAIN t :
       /\ p \in Seq(Seq(Nat)) /\ (\A k \in DOMAIN p : IsName(p[k]) /\ Sendable(p[k]))
       /\ t[p] \in {"dir", "reg", "link"}

VARIABLES
  root, tree,
  url,    \* the link the peer has followed last, as it sent it
  at,     \* where the names of the links it has followed lead to
  page,   \* what it has got: "none", "list", "file", "notFound", "closed"; of
          \* an upload "uploaded" or "refused"
  links,  \* a directory page's links: name and href
  type,   \* the extension by which a file's Content-Type was chosen
  saved   \* history: the places its uploads were meant for

browsingVars == <<root, tree, url, at, page, links, type, saved>>

-------------------------------------------------------------------------------
concatenate_path(left, right) ==
  CASE left = <<>> -> right
    [] right = <<>> -> left
    [] OTHER ->
         LET ends == left[Len(left)] = Slash
             starts == right[1] = Slash
         IN  IF ends /\ starts THEN SubSeq(left, 1, Len(left) - 1) \o right
             ELSE IF ends \/ starts THEN left \o right
             ELSE left \o <<Slash>> \o right

(* A plausible bug: the dot is kept. *)
ExtensionWithDot(path) ==
  LET i == Find(<<Dot>>, path, 1) IN IF i = npos THEN <<>> ELSE SubSeq(path, i, Len(path))

(* What stands behind the first dot of the whole path. *)
get_file_extension(path) ==
  LET i == Find(<<Dot>>, path, 1) IN IF i = npos THEN <<>> ELSE SubSeq(path, i + 1, Len(path))

EndsInSlash(path) == path[Len(path)] = Slash
IsDir(path) == Place(path) \in DOMAIN tree /\ tree[Place(path)] = "dir"
IsFile(path) ==
  Place(path) \in DOMAIN tree /\ tree[Place(path)] \in {"reg", "link"} /\ ~EndsInSlash(path)

(* walk_dir: directories and regular files, but no symbolic links. *)
WalkDir(path) ==
  {p[Len(p)] : p \in {q \in DOMAIN tree : /\ q # <<>> /\ SubSeq(q, 1, Len(q) - 1) = Place(path)
                                          /\ tree[q] \in {"dir", "reg"}}}

(* build_dir_list *)
DirList(path, u) == {[name |-> n, href |-> concatenate_path(u, n)] : n \in WalkDir(path)}

CompletePath(u) == concatenate_path(root, u)

-------------------------------------------------------------------------------
(* A GET of the url u, as it is sent: an exception while it is decoded     *)
(* ends the connection without an answer.                                  *)
Get(u) ==
  /\ url' = u
  /\ \/ /\ decode_percent_encoding_url(u) = {}
        /\ page' = "closed" /\ links' = {} /\ type' = <<>>
     \/ \E basePath \in decode_percent_encoding_url(u) :
          LET path == CompletePath(basePath) IN
          /\ page' = IF IsDir(path) THEN "list" ELSE IF IsFile(path) THEN "file" ELSE "notFound"
          /\ links' = IF page' = "list" THEN DirList(path, basePath) ELSE {}
          /\ type' = IF page' = "file" THEN get_file_extension(path) ELSE <<>>
  /\ UNCHANGED <<root, tree, saved>>

Begin ==
  /\ page = "none"
  /\ \E u \in StartUrls : Get(u) /\ at' = Place(u)

Follow ==
  /\ page = "list"
  /\ \E link \in links : Get(link.href) /\ at' = Append(at, link.name)

GoBack ==
  /\ page \in {"uploaded", "refused"}
  /\ Get(url)
  /\ UNCHANGED at

(* A plausible bug: uploads are saved in the root directory. *)
SavePathInRoot(basePath, name) == CompletePath(name)

SavePath(basePath, name) == concatenate_path(CompletePath(basePath), name)

(* handle_upload_files: the ofstream creates the file in a directory that  *)
(* exists.                                                                 *)
Save(basePath, name) ==
  LET place == Place(SavePath(basePath, name))
      parent == SubSeq(place, 1, Len(place) - 1)
      creates == place \notin DOMAIN tree /\ parent \in DOMAIN tree /\ tree[parent] = "dir"
  IN  tree' = IF creates
              THEN [p \in DOMAIN tree \cup {place} |-> IF p = place THEN "reg" ELSE tree[p]]
              ELSE tree

(* A page's form posts to the url of the page as it has been decoded; it   *)
(* is decoded once more when it comes back.                                *)
Upload ==
  /\ page = "list"
  /\ \E name \in FileNames, action \in decode_percent_encoding_url(url) :
       \/ /\ decode_percent_encoding_url(action) = {}
          /\ page' = "refused"
          /\ UNCHANGED <<tree, saved>>
       \/ /\ \E basePath \in decode_percent_encoding_url(action) : Save(basePath, name)
          /\ page' = "uploaded"
          /\ saved' = saved \cup {Append(at, name)}
  /\ links' = {}
  /\ UNCHANGED <<root, url, at, type>>

BrowsingInit ==
  /\ root \in Roots /\ tree \in Trees
  /\ url = <<>> /\ at = <<>>
  /\ page = "none" /\ links = {} /\ type = <<>> /\ saved = {}

BrowsingNext == Begin \/ Follow \/ GoBack \/ Upload

BrowsingSpec == BrowsingInit /\ [][BrowsingNext]_browsingVars

-------------------------------------------------------------------------------
There(place) == Place(root) \o place

(* Names that are sent and decoded unchanged: links are not percent-encoded *)
(* by the server.                                                          *)
Plain(place) == \A k \in DOMAIN place : Escapes(place[k]) = {}

Shows(place) ==
  page = IF place \notin DOMAIN tree THEN "notFound"
         ELSE IF tree[place] = "dir" THEN "list"
         ELSE IF EndsInSlash(CompletePath(Decoded(url))) THEN "notFound" ELSE "file"

(* A url is decoded once, an escaped percent sign included, and refused if  *)
(* and only if a percent sign is not followed by two digits; what it shows  *)
(* is what is at that path under the root, whether or not root and url end  *)
(* in a slash.  So a link of a page leads to what the page lists, at any    *)
(* depth (utils.cpp:94, main.cpp:130).                                      *)
PageIsOfUrl ==
  page \notin {"none", "uploaded", "refused"} =>
    /\ page = "closed" <=> ~WellFormed(url)
    /\ WellFormed(url) =>
         /\ decode_percent_encoding_url(url) = {Decoded(url)}
         /\ Shows(There(Place(Decoded(url))))
    /\ Plain(at) => Shows(There(at))

(* A file that was uploaded from a directory's page is in that directory   *)
(* under the name the peer gave it, and the page lists it, unless that is  *)
(* the name of a symbolic link (main.cpp:286, filesystem_ops.cpp:65).      *)
UploadIsListed ==
  \A s \in saved : Plain(SubSeq(s, 1, Len(s) - 1)) =>
    /\ There(s) \in DOMAIN tree
    /\ page = "list" /\ at = SubSeq(s, 1, Len(s) - 1) /\ tree[There(s)] # "link" =>
         \E link \in links : link.name = s[Len(s)]

(* The type of a download is that of its name, as long as no directory on  *)
(* the way, the root's among them, has a dot in its name                   *)
(* (filesystem_ops.cpp:106).                                               *)
HasDot(name) == Find(<<Dot>>, name, 1) # npos
TypeIsOfName ==
  page = "file" /\ at # <<>> /\ Plain(at) /\ ~HasDot(root) /\ (\A k \in 1..Len(at) - 1 : ~HasDot(at[k])) =>
    IF HasDot(at[Len(at)]) THEN \E stem \in {SubSeq(at[Len(at)], 1, n) : n \in 0..Len(at[Len(at)])} :
                                  ~HasDot(stem) /\ at[Len(at)] = stem \o <<Dot>> \o type
    ELSE type = <<>>
===============================================================================
