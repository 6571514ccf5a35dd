------------------------------ MODULE TagParser ------------------------------
(***************************************************************************)
(* AWSBuilder.init_tags of src/aws-build/lib/AWSBuilder.py: the tag set   *)
(* of a session is a named preset (dns, brain) or is read from a file of  *)
(* key=value lines.  The file is read the way Python iterates a text      *)
(* file: each line keeps its trailing newline, except a last line that    *)
(* has none.  Text is a sequence of characters over a small alphabet that *)
(* holds every character the parser tests for.  The for loop over the    *)
(* file takes one step per line.                                           *)
(*                                                                         *)
(* The code is compared with a reference that follows spec.md section 6:  *)
(* blank lines and '#'-comments are ignored, a line without '=' is a      *)
(* format error, and a later key overrides an earlier one.                *)
(***************************************************************************)
EXTENDS Naturals, Sequences

CONSTANTS
    MaxLines,   \* the longest file, in lines
    MaxLen      \* the longest line, in characters before the newline

ASSUME ConstantsAssumption == MaxLines \in Nat /\ MaxLen \in Nat

NL == "\n"
Whitespace == {" ", NL}
Chars == {"a", "=", "#", " "}

(* The sequences over S of length at most n.                               *)
SeqUpTo(S, n) == UNION {[1..m -> S] : m \in 0..n}

(* A line of the file as the for loop yields it.                           *)
RawLines == {t \o <<NL>> : t \in SeqUpTo(Chars, MaxLen)}
LastLines == RawLines \cup (SeqUpTo(Chars, MaxLen) \ {<<>>})
Files == {f \in SeqUpTo(LastLines, MaxLines) :
            \A i \in 1..Len(f) - 1 : f[i] \in RawLines}

(* The tags argument: a preset name in any case, or a path.               *)
Args == {"dns", "DNS", "brain", "Brain", "tags.txt"}
Lower(a) == CASE a \in {"dns", "DNS"} -> "dns"
              [] a \in {"brain", "Brain"} -> "brain"
              [] OTHER -> a

(* team_tags[k] = v on a dict: k is added or its value replaced.          *)
SetTag(t, k, v) == [x \in DOMAIN t \cup {k} |-> IF x = k THEN v ELSE t[x]]

NoTags == <<>>

(* DNS_TAGS and BRAIN_TAGS, abstracted to two distinct one-entry tables.  *)
DNS_TAGS == SetTag(NoTags, <<"a">>, <<"#">>)
BRAIN_TAGS == SetTag(NoTags, <<"a">>, <<"=">>)

Ok(t) == [kind |-> "ok", tags |-> t]
Error(k) == [kind |-> k, tags |-> NoTags]
Unset == Error("unset")

-----------------------------------------------------------------------------
Least(S) == CHOOSE i \in S : \A j \in S : i <= j
Greatest(S) == CHOOSE i \in S : \A j \in S : j <= i

(* str.strip(): drop leading and trailing whitespace.                     *)
Strip(t) ==
    LET keep == {i \in 1..Len(t) : t[i] \notin Whitespace}
    IN  IF keep = {} THEN <<>> ELSE SubSeq(t, Least(keep), Greatest(keep))

StartsWith(t, c) == t # <<>> /\ t[1] = c

Contains(t, c) == \E i \in 1..Len(t) : t[i] = c

(* The index of the first c in t, Len(t) + 1 when there is none.          *)
FirstAt(t, c) ==
    IF Contains(t, c) THEN Least({i \in 1..Len(t) : t[i] = c}) ELSE Len(t) + 1

(* key, value = line.partition(c)[::2]: the text before and after the     *)
(* first c; the whole line and nothing when there is no c.                *)
PartKey(t, c) == SubSeq(t, 1, FirstAt(t, c) - 1)
PartValue(t, c) == SubSeq(t, FirstAt(t, c) + 1, Len(t))

(* Faulty variant of AddTag: the value keeps its newline.                 *)
AddTagRawValue(tags, line) ==
    SetTag(tags, Strip(PartKey(line, "=")), PartValue(line, "="))

(* team_tags[key.strip()] = value.strip(): a later key overrides.         *)
AddTag(tags, line) ==
    SetTag(tags, Strip(PartKey(line, "=")), Strip(PartValue(line, "=")))

(* Faulty variant of ParseLine: a line without '=' is not rejected.       *)
ParseLineNoCheck(tags, line) ==
    IF line = <<>> \/ StartsWith(line, "#") THEN Ok(tags)
    ELSE Ok(AddTag(tags, line))

(* Faulty variant of ParseLine: the first occurrence of a key wins.       *)
ParseLineFirstWins(tags, line) ==
    IF line = <<>> \/ StartsWith(line, "#") THEN Ok(tags)
    ELSE IF ~Contains(line, "=") THEN Error("ValueError")
    ELSE IF Strip(PartKey(line, "=")) \in DOMAIN tags THEN Ok(tags)
    ELSE Ok(AddTag(tags, line))

(* One iteration of the for loop.  line.strip() discards its result, so   *)
(* the tests see the raw line with its newline; the raise ends the loop.  *)
ParseLine(tags, line) ==
    IF line = <<>> \/ StartsWith(line, "#") THEN Ok(tags)
    ELSE IF ~Contains(line, "=") THEN Error("ValueError")
    ELSE Ok(AddTag(tags, line))

-----------------------------------------------------------------------------
(* The reference of spec.md section 6, on the stripped lines: the file is *)
(* rejected when an entry (a line neither blank nor a comment) lacks '=', *)
(* and otherwise each key takes the value of its last entry.              *)
IsEntry(s) == s # <<>> /\ ~StartsWith(s, "#")
SpecKey(line) == Strip(PartKey(Strip(line), "="))
SpecValue(line) == Strip(PartValue(Strip(line), "="))
SpecBad(f) ==
    \E j \in 1..Len(f) : IsEntry(Strip(f[j])) /\ ~Contains(Strip(f[j]), "=")
Entries(f) == {j \in 1..Len(f) : IsEntry(Strip(f[j]))}
SpecTable(f) ==
    [k \in {SpecKey(f[j]) : j \in Entries(f)} |->
        SpecValue(f[Greatest({j \in Entries(f) : SpecKey(f[j]) = k})])]

SpecTags(a, isf, f) ==
    CASE Lower(a) = "dns" -> Ok(DNS_TAGS)
      [] Lower(a) = "brain" -> Ok(BRAIN_TAGS)
      [] Lower(a) \notin {"dns", "brain"} /\ isf ->
            IF SpecBad(f) THEN Error("ValueError") ELSE Ok(SpecTable(f))
      [] Lower(a) \notin {"dns", "brain"} /\ ~isf -> Error("FileNotFoundError")

-----------------------------------------------------------------------------
VARIABLES
    arg,     \* the tags argument of AWSBuilder.__init__
    isfile,  \* os.path.isfile(tags)
    file,    \* the file's lines
    pc,      \* "call" before init_tags, "loop" in the for loop, "done"
    read,    \* the number of lines the loop has taken
    tags,    \* team_tags
    result   \* what init_tags returned or raised; Unset before the call

vars == <<arg, isfile, file, pc, read, tags, result>>

TypeOK ==
    /\ arg \in Args
    /\ isfile \in BOOLEAN
    /\ file \in Files
    /\ pc \in {"call", "loop", "done"}
    /\ read \in 0..Len(file)
    /\ \A k \in DOMAIN tags : k \in Seq(Chars) /\ tags[k] \in Seq(Chars)
    /\ result.kind \in {"unset", "ok", "ValueError", "FileNotFoundError"}
    /\ \A k \in DOMAIN result.tags :
          k \in Seq(Chars) /\ result.tags[k] \in Seq(Chars)

Init ==
    /\ arg \in Args
    /\ isfile \in BOOLEAN
    /\ file \in Files
    /\ pc = "call" /\ read = 0 /\ tags = NoTags
    /\ result = Unset

(* The constructor's call self.init_tags(tags) up to the for loop: a      *)
(* preset by its lower-cased name, else the file if os.path.isfile holds, *)
(* else FileNotFoundError.                                                 *)
Call ==
    /\ pc = "call"
    /\ \/ Lower(arg) = "dns" /\ result' = Ok(DNS_TAGS) /\ pc' = "done"
       \/ Lower(arg) = "brain" /\ result' = Ok(BRAIN_TAGS) /\ pc' = "done"
       \/ /\ Lower(arg) \notin {"dns", "brain"} /\ isfile
          /\ pc' = "loop" /\ UNCHANGED result
       \/ /\ Lower(arg) \notin {"dns", "brain"} /\ ~isfile
          /\ result' = Error("FileNotFoundError") /\ pc' = "done"
    /\ UNCHANGED <<arg, isfile, file, read, tags>>

(* One pass of "for line in f": the line is skipped or added, or the      *)
(* ValueError leaves init_tags.                                            *)
ReadLine ==
    /\ pc = "loop" /\ read < Len(file)
    /\ LET r == ParseLine(tags, file[read + 1])
       IN  \/ /\ r.kind = "ok"
              /\ tags' = r.tags /\ read' = read + 1
              /\ UNCHANGED <<pc, result>>
           \/ /\ r.kind # "ok"
              /\ result' = r /\ pc' = "done"
              /\ UNCHANGED <<tags, read>>
    /\ UNCHANGED <<arg, isfile, file>>

(* The loop ends with the file, and init_tags returns team_tags.          *)
EndOfFile ==
    /\ pc = "loop" /\ read = Len(file)
    /\ result' = Ok(tags) /\ pc' = "done"
    /\ UNCHANGED <<arg, isfile, file, read, tags>>

Next == Call \/ ReadLine \/ EndOfFile

Spec == Init /\ [][Next]_vars

Expected == SpecTags(arg, isfile, file)

(* The part of a table whose keys do not begin with '#'.                  *)
Uncommented(t) == [k \in {x \in DOMAIN t : ~StartsWith(x, "#")} |-> t[k]]

-----------------------------------------------------------------------------
(* spec 8: a file with a line that lacks '=' and is neither blank nor a   *)
(* comment makes init_tags raise ValueError.                              *)
SpecErrorImpliesCodeError ==
    result # Unset /\ Expected.kind = "ValueError" => result.kind = "ValueError"

(* Where both the code and the reference accept the file, they build the  *)
(* same table, except for the keys beginning with '#' that the code reads *)
(* from indented comments: partition, strip and override agree.           *)
TagsAgreeOutsideComments ==
    result # Unset /\ result.kind = "ok" /\ Expected.kind = "ok" =>
        Uncommented(result.tags) = Expected.tags

(* spec 6: init_tags returns exactly the reference's result; blank lines  *)
(* and comments are ignored.                                               *)
ParserMatchesSpec == result # Unset => result = Expected

=============================================================================
