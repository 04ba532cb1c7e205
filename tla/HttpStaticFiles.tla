-------------------------- MODULE HttpStaticFiles --------------------------
(***************************************************************************)
(* http_static_files.cpp: from the path of a request to the file opened    *)
(* for it.  A path is a sequence of characters; what the code tells apart  *)
(* is the slash, the dot, the backslash and any other.  Requests are       *)
(* enumerated by writing the path on character by character.  What the     *)
(* file system of the application answers is a free choice.                *)
(***************************************************************************)
EXTENDS Integers, SequencesExt

CONSTANTS
  Mounts,                  (* [prefix, root, index] serve_static may get.  *)
  HTTP_MAX_STATIC_ROUTES,
  HTTP_STATIC_PATH_MAX,    (* fs_path[] has one character more.            *)
  Extensions,              (* The known ones, with their dot.              *)
  MaxPath                  (* Bound: length of a requested path.           *)

PathChars == {"/", ".", "backslash", "a"}

ASSUME StaticAssumption ==
  /\ \A m \in Mounts : {m.prefix, m.root, m.index} \subseteq Seq(PathChars)
  /\ {HTTP_MAX_STATIC_ROUTES, HTTP_STATIC_PATH_MAX, MaxPath} \subseteq Nat
  /\ Extensions \subseteq Seq(PathChars)

VARIABLES
  mounts,  (* routes_[0 .. count_ - 1]                                     *)
  path,    (* the path of the request, so far                              *)
  file     (* HttpStaticResolved of the last resolve_open                  *)

files_vars == <<mounts, path, file>>

NoFile == [route |-> 0, fs_path |-> <<>>, mime |-> "octet-stream"]
DotDot == <<".", ".">>
Slash == <<"/">>
Backslash == <<"backslash">>

(* A suffix of s.                                                          *)
From(s, k) == SubSeq(s, k, Len(s))
strstr(s, t) == \E k \in DOMAIN s : IsPrefix(t, From(s, k))
EndsInSlash(s) == s # <<>> /\ Last(s) = "/"

-----------------------------------------------------------------------------
(* add: what is not a prefix or not a directory is INVALID_ARG.            *)
AddMount(m) ==
  /\ path = Slash
  /\ m.prefix # <<>> /\ Head(m.prefix) = "/" /\ m.root # <<>>
  /\ Len(mounts) < HTTP_MAX_STATIC_ROUTES
  /\ mounts' = Append(mounts, m)
  /\ UNCHANGED <<path, file>>

-----------------------------------------------------------------------------
(* build_path.                                                             *)

(* Mutant: a prefix may end within a name.                                 *)
starts_with_any(s, prefix) == IsPrefix(prefix, s)

starts_with(s, prefix) ==
  /\ IsPrefix(prefix, s)
  /\ Len(s) = Len(prefix) \/ s[Len(prefix) + 1] = "/"

(* What follows the prefix, less one slash; the index if nothing does.     *)
Relative(m, url) ==
  LET rest == From(url, Len(m.prefix) + 1)
      name == IF rest # <<>> /\ Head(rest) = "/" THEN Tail(rest) ELSE rest
  IN IF name = <<>> THEN m.index ELSE name

(* Mutant: a parent directory at the end of a path is let through.         *)
http_static_path_is_safe_within(relative) ==
  /\ relative # <<>>
  /\ ~strstr(relative, DotDot \o Slash) /\ ~strstr(relative, DotDot \o Backslash)
  /\ ~strstr(relative, Slash \o Slash) /\ ~strstr(relative, Backslash \o Backslash)

http_static_path_is_safe(relative) ==
  /\ relative # <<>>
  /\ ~strstr(relative, DotDot \o Slash) /\ ~strstr(relative, DotDot \o Backslash)
  /\ ~strstr(relative, Slash \o Slash) /\ ~strstr(relative, Backslash \o Backslash)
  /\ relative # DotDot
  /\ ~strstr(relative, Slash \o DotDot)

(* Mutant: no slash is put between directory and name.                     *)
DirectoryAsGiven(root) == root
Directory(root) == IF EndsInSlash(root) THEN root ELSE root \o Slash

need_slash(root) == ~EndsInSlash(root)

(* What the path is going to need in out, computed before it is written.   *)
(* Mutant: the slash in between is not counted.                            *)
PathLenNoSlash(m, url) == Len(m.root) + Len(Relative(m, url))
PathLen(m, url) ==
  Len(m.root) + (IF need_slash(m.root) THEN 1 ELSE 0) + Len(Relative(m, url))

FsPathSize == HTTP_STATIC_PATH_MAX + 1
Builds(m, url) == /\ starts_with(url, m.prefix)
                  /\ http_static_path_is_safe(Relative(m, url))
                  /\ PathLen(m, url) < FsPathSize

(* What strcpy and strcat write, without the zero that ends it.            *)
build_path(m, url) == Directory(m.root) \o Relative(m, url)

(* Mutant: the extension begins at the first dot.                          *)
http_static_mime_type_first(s) ==
  LET dots == {k \in DOMAIN s : s[k] = "."}
  IN IF dots # {} /\ From(s, Min(dots)) \in Extensions THEN "known" ELSE "octet-stream"

(* The extension begins at the last dot of the whole path.                 *)
http_static_mime_type(s) ==
  LET dots == {k \in DOMAIN s : s[k] = "."}
  IN IF dots # {} /\ From(s, Max(dots)) \in Extensions THEN "known" ELSE "octet-stream"

-----------------------------------------------------------------------------
(* resolve_open: the first route that builds a path decides, whether its   *)
(* file exists and can be opened or not.  The path is written before.      *)
Deciding(url) == {k \in DOMAIN mounts : Builds(mounts[k], url)}

resolve_open(url) ==
  IF Deciding(url) = {} THEN {NoFile}
  ELSE LET k == Min(Deciding(url))
           fs_path == build_path(mounts[k], url)
       IN {[NoFile EXCEPT !.fs_path = fs_path],
           [route |-> k, fs_path |-> fs_path,
            mime |-> http_static_mime_type(fs_path)]}

(* A request: for the last path and one more character, or for "/".        *)
Request(url) ==
  /\ Len(url) <= MaxPath
  /\ path' = url
  /\ file' \in resolve_open(url)
  /\ UNCHANGED mounts

FilesInit == mounts = <<>> /\ path = Slash /\ file = NoFile

FilesNext == (\E m \in Mounts : AddMount(m)) \/ (\E c \in PathChars : Request(Append(path, c))) \/ Request(Slash)

FilesSpec == FilesInit /\ [][FilesNext]_files_vars

-----------------------------------------------------------------------------
(* Properties.                                                             *)

(* The names a path is made of, as a file system reads it.                 *)
Cuts(s) == {0, Len(s) + 1} \cup {k \in DOMAIN s : s[k] = "/"}
Gaps(s) == {c \in Cuts(s) \X Cuts(s) :
              c[1] < c[2] /\ \A k \in c[1] + 1 .. c[2] - 1 : k \notin Cuts(s)}
NamesIn(s) == {SubSeq(s, c[1] + 1, c[2] - 1) : c \in Gaps(s)}

(* What a proof may assume besides: an application names its directories   *)
(* without "..", and an extension is what follows the last dot of a name.  *)
RootsClean == \A m \in Mounts : DotDot \notin NamesIn(m.root)
DotsInFront ==
  \A e \in Extensions : e # <<>> /\ e[1] = "." /\ \A i \in 2 .. Len(e) : e[i] \notin {".", "/"}

(* What is opened lies below the directory of its mount: it begins with it *)
(* and no name in it, read as a file system does, leads back up.           *)
StaysBelowRoot ==
  file.route # 0 =>
    /\ IsPrefix(Directory(mounts[file.route].root), file.fs_path)
    /\ DotDot \notin NamesIn(file.fs_path)

(* What is written, with its terminating zero, stays in fs_path[]: the     *)
(* length computed beforehand is that of the pieces put together, for      *)
(* either form of directory and for the index, opened in the end or not.   *)
PathFits == Len(file.fs_path) + 1 <= FsPathSize

(* A request is served by one mount only, so the order of registration is  *)
(* no matter, unless one mounted prefix lies beneath the other.            *)
Beneath(m, n) == m.prefix = n.prefix \/ IsPrefix(Directory(m.prefix), n.prefix)
OneMountPerPath ==
  \A j, k \in Deciding(path) : Beneath(mounts[j], mounts[k]) \/ Beneath(mounts[k], mounts[j])

(* docs/static-files.md:30: an ordinary name beneath a mounted prefix is   *)
(* mapped to that name beneath the mount's directory.  (Not so beneath a   *)
(* prefix that ends in a slash: starts_with then asks for a second one.)   *)
Ordinary(s) == s # <<>> /\ \A name \in NamesIn(s) : name # <<>> /\ ToSet(name) = {"a"}
OrdinaryPathsMapped ==
  \A k \in DOMAIN mounts :
    LET m == mounts[k]
        name == From(path, Len(Directory(m.prefix)) + 1)
        slash == IF EndsInSlash(m.root) THEN <<>> ELSE Slash
    IN ~EndsInSlash(m.prefix) /\ IsPrefix(Directory(m.prefix), path) /\ Ordinary(name)
         /\ Len(m.root \o slash \o name) <= HTTP_STATIC_PATH_MAX
       => Builds(m, path) /\ build_path(m, path) = m.root \o slash \o name

(* The type sent is that of the file's own name, whatever its directories  *)
(* are called.                                                             *)
FileName(s) == From(s, 1 + Max({0} \cup {k \in DOMAIN s : s[k] = "/"}))
TypeOfFileName ==
  file.route # 0 => (file.mime = "known") =
    \E e \in Extensions : IsSuffix(e, FileName(file.fs_path))
=============================================================================
