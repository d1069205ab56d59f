------------------------------ MODULE PathNames ------------------------------
(***************************************************************************)
(* Names of script files (sqmodules/path.cpp, deffileaccess.cpp): the text *)
(* a script writes in require() becomes the key under which a module is    *)
(* loaded, so two spellings of one file must become one key, and no        *)
(* spelling may become the key of another file.  The C string is a         *)
(* sequence of characters; indices are the code's, from 0.                 *)
(***************************************************************************)
EXTENDS Integers, Sequences, SequencesExt

CONSTANTS Pieces,     \* the character sequences names are composed of
          MaxPieces,  \* bound: pieces of the two names
          MaxRunning  \* bound: pieces of the name of the running script

PiecesAssumption == \A p \in Pieces : p \in Seq(STRING) /\ p # <<>>

Spaces == {" ", "\t"}

Ch(s, i) == IF i < Len(s) THEN s[i + 1] ELSE "end"
From(s, i) == SubSeq(s, i + 1, Len(s))
Cut(s, i, e) == SubSeq(s, 1, i) \o From(s, i + e)

\* Removes the spaces at both ends and a pair of quotes, until none is left.
Trim(s) ==
    LET solid == {k \in DOMAIN s : s[k] \notin Spaces}
    IN  IF solid = {} THEN <<>>
        ELSE SubSeq(s, CHOOSE k \in solid : \A m \in solid : k <= m,
                       CHOOSE k \in solid : \A m \in solid : k >= m)

RECURSIVE Unquote(_)
Unquote(s) ==
    LET t == Trim(s)
        quotes == {k \in DOMAIN t : t[k] = "quote"}
        first == CHOOSE k \in quotes : \A m \in quotes : k <= m
        second == CHOOSE k \in quotes \ {first} : \A m \in quotes \ {first} : k <= m
    IN  IF \E k, m \in quotes : k # m
          THEN Unquote(RemoveAt(RemoveAt(t, second), first))
          ELSE t

\* Every back slash but a first one becomes a slash; a slash after a slash goes.
Slashes(s) ==
    LET t == [k \in DOMAIN s |-> IF k > 1 /\ s[k] = "back" THEN "/" ELSE s[k]]
    IN  FoldLeft(LAMBDA out, c : IF c = "/" /\ out # <<>> /\ Last(out) = "/" THEN out
                                 ELSE Append(out, c), <<>>, t)

RECURSIVE LeadingCurDirs(_), CurDirs(_, _), UpDirs(_, _)
LeadingCurDirs(s) ==
    IF Len(s) > 1 /\ Ch(s, 0) = "." /\ Ch(s, 1) = "/" THEN LeadingCurDirs(From(s, 2)) ELSE s

\* From index i: "." between slashes, and the slash after it, is removed.
CurDirs(s, i) ==
    IF i >= Len(s) THEN s
    ELSE IF /\ Ch(s, i) = "." /\ Ch(s, i - 1) \in {"/", ":"}
            /\ Ch(s, i + 1) \in {"/", "end"}
           THEN CurDirs(Cut(s, i, IF Ch(s, i + 1) = "/" THEN 2 ELSE 1), i)
           ELSE CurDirs(s, i + 1)

\* From index i: a directory and the ".." after it are removed, unless the
\* directory is itself "..".  j is where the directory's name starts.
UpDirs_Bug(s, i) ==
    LET starts == {k \in 0..(i - 3) : Ch(s, k) \in {"/", ":"}}
        j == IF starts = {} THEN 0 ELSE 1 + CHOOSE k \in starts : \A m \in starts : k >= m
        e == i + 1 - j
        removable == /\ Ch(s, i - 2) = "/" /\ Ch(s, i - 1) = "." /\ Ch(s, i) = "."
                     /\ j < i - 2
                     /\ e # 5 \/ Ch(s, j) # "." \/ Ch(s, j + 1) # "."
    IN  IF i >= Len(s) THEN s
        ELSE IF removable
               THEN UpDirs(Cut(s, j, IF Ch(s, i + 1) = "/" THEN e + 1 ELSE e),
                           (IF j > 1 THEN j ELSE 1) + 1)
               ELSE UpDirs(s, i + 1)
UpDirs(s, i) ==
    LET starts == {k \in 0..(i - 3) : Ch(s, k) \in {"/", ":"}}
        j == IF starts = {} THEN 0 ELSE 1 + CHOOSE k \in starts : \A m \in starts : k >= m
        e == i + 1 - j
        removable == /\ Ch(s, i - 2) = "/" /\ Ch(s, i - 1) = "." /\ Ch(s, i) = "."
                     /\ Ch(s, i + 1) \in {"/", "end"}
                     /\ j < i - 2
                     /\ e # 5 \/ Ch(s, j) # "." \/ Ch(s, j + 1) # "."
    IN  IF i >= Len(s) THEN s
        ELSE IF removable
               THEN UpDirs(Cut(s, j, IF Ch(s, i + 1) = "/" THEN e + 1 ELSE e),
                           (IF j > 1 THEN j ELSE 1) + 1)
               ELSE UpDirs(s, i + 1)

\* Where a name "scheme://rest" has its rest, 0 when it has no scheme.
SchemeEnd(s) ==
    LET colons == {k \in 0..7 : Ch(s, k) = ":"}
        semi == CHOOSE k \in colons : \A m \in colons : k <= m
    IN  IF colons # {} /\ Len(s) > semi + 3 /\ Ch(s, semi + 1) = "/" /\ Ch(s, semi + 2) = "/"
          THEN semi + 3 ELSE 0

dd_simplify_fname_c(s) ==
    LET u == SchemeEnd(s)
    IN  SubSeq(s, 1, u) \o
        UpDirs(CurDirs(LeadingCurDirs(Slashes(Unquote(From(s, u)))), 1), 2)

dd_append_slash_c(s) == IF s = <<>> \/ Last(s) \in {"/", "back"} THEN s ELSE Append(s, "/")

\* The directory of a file name.
dd_get_fname_location(name) ==
    LET s == dd_simplify_fname_c(name)
        slash == {k \in DOMAIN s : s[k] = "/"}
        colon == {k \in DOMAIN s : s[k] = ":"}
    IN  IF slash # {} THEN SubSeq(s, 1, CHOOSE k \in slash : \A m \in slash : k >= m)
        ELSE IF colon # {} THEN SubSeq(s, 1, CHOOSE k \in colon : \A m \in colon : k <= m)
        ELSE <<>>

makeRelativeFilename(cur_file, requested) ==
    dd_simplify_fname_c(dd_append_slash_c(dd_get_fname_location(cur_file)) \o requested)

\* The name relative to the running script if such a file exists, else the name
\* as it is written.
resolveFileName(requested, running, disk) ==
    LET relative == makeRelativeFilename(running, requested)
    IN  IF running # <<>> /\ relative \in disk THEN relative
        ELSE dd_simplify_fname_c(requested)

-----------------------------------------------------------------------------
(***************************************************************************)
(* What a name means, stated without the algorithm: the walk from the      *)
(* root, or from the current directory, that its components describe.      *)
(* Directories are not links; ".." of the root is kept, as the code does.  *)
(***************************************************************************)
Components(s) ==
    SelectSeq(FoldLeft(LAMBDA parts, c : IF c = "/" THEN Append(parts, <<>>)
                         ELSE [parts EXCEPT ![Len(parts)] = Append(@, c)],
                       << <<>> >>, s),
              LAMBDA p : p \notin {<<>>, <<".">>})

Walk(parts) ==
    FoldLeft(LAMBDA at, p : IF p = <<".", ".">> /\ at # <<>> /\ Last(at) # p
                              THEN Front(at) ELSE Append(at, p), <<>>, parts)

Absolute(s) == s # <<>> /\ s[1] = "/"
Meaning(s) == <<Absolute(s), Walk(Components(s))>>

\* The last component is a name, not a directory written with "/", "." or "..".
NamesFile(s) ==
    /\ s # <<>> /\ Last(s) # "/"
    /\ Components(s) # <<>> /\ Last(Components(s)) # <<".", ".">>
    /\ ~(Last(s) = "." /\ (Len(s) = 1 \/ s[Len(s) - 1] = "/"))

\* The one spelling of a file.
Spelling(s) ==
    LET parts == Walk(Components(s))
    IN  FoldLeft(LAMBDA out, k : (IF k = 1 /\ ~Absolute(s) THEN out ELSE Append(out, "/")) \o parts[k],
                 <<>>, [k \in DOMAIN parts |-> k])

-----------------------------------------------------------------------------
(***************************************************************************)
(* Every requested name, required by every running script, is tried: a     *)
(* step writes one more piece of one of the two.                           *)
(***************************************************************************)
VARIABLES requested_fn, running_script, written

vars == <<requested_fn, running_script, written>>

Init == requested_fn = <<>> /\ running_script = <<>> /\ written = 0

WriteRequested(p) ==
    /\ written < MaxPieces
    /\ requested_fn' = requested_fn \o p
    /\ written' = written + 1
    /\ UNCHANGED running_script

WriteRunning(p) ==
    /\ requested_fn = <<>> /\ written < MaxRunning
    /\ running_script' = running_script \o p
    /\ written' = written + 1
    /\ UNCHANGED requested_fn

Next == \E p \in Pieces : WriteRequested(p) \/ WriteRunning(p)

Spec == Init /\ [][Next]_vars

Plain(s) == \A k \in DOMAIN s : s[k] \notin Spaces \cup {"quote", "back", ":"}

\* Two spellings of a file become one key, and the spellings of two files two:
\* the key is the one spelling of what the name means.
OneKeyPerFile ==
    Plain(requested_fn) /\ NamesFile(requested_fn) =>
      resolveFileName(requested_fn, running_script, {}) = Spelling(requested_fn)

\* A directory, too, keeps its meaning, and what was simplified stays as it is.
MeaningKept ==
    Plain(requested_fn) =>
      LET s == dd_simplify_fname_c(requested_fn)
      IN  Meaning(s) = Meaning(requested_fn) /\ dd_simplify_fname_c(s) = s

\* A name is looked up from the directory of the script that requires it.
RelativeToScript ==
    LET cur == running_script
        s == resolveFileName(requested_fn, cur, {makeRelativeFilename(cur, requested_fn)})
    IN  Plain(cur) /\ NamesFile(cur) /\ Plain(requested_fn) /\ ~Absolute(requested_fn) =>
          Meaning(s) = <<Absolute(cur),
                         Walk(Front(Components(Spelling(cur))) \o Components(requested_fn))>>

\* What the module manager relies on, of every name and running script.
NamesKept == OneKeyPerFile /\ MeaningKept /\ RelativeToScript

=============================================================================
