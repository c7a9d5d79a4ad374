------------------------------ MODULE SvnRepo ------------------------------
(***************************************************************************)
(* What svnup sees of the two trees it reconciles: the entries of a        *)
(* working copy or of one revision, the revisions of the repository, and   *)
(* the edit a Subversion server drives to take a client from one tree to   *)
(* another.  The server is not part of the program: the edit is derived    *)
(* here from the two trees the way the editor commands that                *)
(* svnproto_editor.c dispatches presuppose it.                             *)
(***************************************************************************)
EXTENDS Sequences, SequencesExt

CONSTANTS
  Path,      \* paths below the root, as sequences of names
  Text,      \* file contents: equal texts are texts of equal MD5 checksum
  LinkText,  \* the texts that contain "link ", the form of a symlink's text
  Empty,     \* the text of an empty file
  Torn,      \* what a file holds when its writer died half way
  NoText,    \* no text, no checksum
  Rev,       \* the revisions of the repository
  NoRev,     \* no revision file
  BlankRev,  \* a revision file of no bytes
  Repo       \* Repo[r] is the tree of revision r

Kinds == {"none", "dir", "file", "link"}
Absent == [kind |-> "none", text |-> NoText, exec |-> FALSE]
Dir == [kind |-> "dir", text |-> NoText, exec |-> FALSE]
File(t, x) == [kind |-> "file", text |-> t, exec |-> x]
Link(t) == [kind |-> "link", text |-> t, exec |-> FALSE]
Node ==
  {Absent, Dir}
    \cup [kind : {"file", "link"}, text : Text \cup {Torn, NoText}, exec : BOOLEAN]

Above(p) == {q \in Path : IsStrictPrefix(q, p)}
Below(p) == {q \in Path : IsStrictPrefix(p, q)}

IsFile(n) == n.kind = "file"
IsEntry(n) == n.kind \in {"file", "link"}

\* Same kind and text: all that a checksum and a diff -r can tell.
Same(m, n) == m.kind = n.kind /\ m.text = n.text

\* A tree of the repository: entries hang below directories, symlinks have
\* symlink text, and nothing is torn.
IsTree(t) ==
  /\ t \in [Path -> Node]
  /\ \A p \in Path :
       /\ IsEntry(t[p]) => t[p].text \in Text
       /\ t[p].kind = "link" => t[p] = Link(t[p].text) /\ t[p].text \in LinkText
       /\ t[p].kind # "none" => \A q \in Above(p) : t[q].kind = "dir"

\* The root is no path below the root, and of the directories above a path
\* that have a property in common one is the topmost.
ASSUME PathAssumption ==
  /\ << >> \notin Path
  /\ \A p \in Path : p \notin Above(p) /\ \A q \in Above(p) : Above(q) \subseteq Above(p)
  /\ \A p \in Path : \A Q \in SUBSET Above(p) :
       Q # {} => \E q \in Q : Above(q) \cap Q = {}

ASSUME TextAssumption ==
  /\ LinkText \subseteq Text
  /\ Empty \in Text \ LinkText
  /\ Torn \notin Text /\ NoText \notin Text /\ Torn # NoText

ASSUME RevAssumption ==
  /\ NoRev \notin Rev /\ BlankRev \notin Rev /\ NoRev # BlankRev
  /\ Repo \in [Rev -> [Path -> Node]]
  /\ \A r \in Rev : IsTree(Repo[r])

EmptyTree == [p \in Path |-> Absent]

(***************************************************************************)
(* The tree the report of svnup's set_path names: the recorded revision,   *)
(* or nothing at all when it sends start-empty.                            *)
(***************************************************************************)
ReportedTree(r) == IF r \in Rev THEN Repo[r] ELSE EmptyTree

(***************************************************************************)
(* The edit from tree s to tree t.  An entry that is gone or changes its   *)
(* kind is deleted, once for a whole subtree; what exists in t and differs *)
(* is added or opened, and the directories on the way to it are opened.    *)
(***************************************************************************)
Deleted(s, t) ==
  {p \in Path : /\ s[p].kind \notin {"none", t[p].kind}
                /\ \A q \in Above(p) : t[q].kind = "dir"}

Updated(s, t) ==
  {p \in Path : /\ t[p].kind # "none"
                /\ \/ s[p] # t[p]
                   \/ t[p].kind = "dir" /\ \E q \in Below(p) : s[q] # t[q]}

=============================================================================
