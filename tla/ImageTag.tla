------------------------------ MODULE ImageTag ------------------------------
(***************************************************************************)
(* Which pipeline built an image, read out of the image's reference        *)
(* (internal/gitlab/image.go).  A reference is a sequence of tokens: the    *)
(* four separators, numbers, and words.                                    *)
(***************************************************************************)
EXTENDS Integers, Sequences, FiniteSetsExt

\* Where a token occurs.
Where(s, token) == {i \in DOMAIN s : s[i] = token}

\* strings.Split(tag, "-") has more than one part where there is a dash: the first
\* part and the last one.
FirstPart(tag) == SubSeq(tag, 1, Min(Where(tag, "-")) - 1)
LastPart(tag) == SubSeq(tag, Max(Where(tag, "-")) + 1, Len(tag))

\* strconv.Atoi of a part of a tag: one number and nothing else.
IsNumber(part, numbers) == Len(part) = 1 /\ part[1] \in numbers

Refused == [project |-> <<>>, environment |-> <<>>, pipeline |-> <<>>]

\* Mutant: the pipeline is the part after the environment.
ParseTagSecond(project, tag, environments, numbers) ==
    LET after == SubSeq(tag, Min(Where(tag, "-")) + 1, Len(tag))
        second == IF Where(after, "-") = {} THEN after ELSE FirstPart(after)
    IN
    IF Where(tag, "-") = {} \/ FirstPart(tag) \notin environments \/ ~IsNumber(second, numbers)
    THEN Refused
    ELSE [project |-> project, environment |-> FirstPart(tag), pipeline |-> second]

\* A tag of another shape, or of no environment of ours, is refused.
ParseTag(project, tag, environments, numbers) ==
    IF \/ Where(tag, "-") = {}
       \/ FirstPart(tag) \notin environments
       \/ ~IsNumber(LastPart(tag), numbers)
    THEN Refused
    ELSE [project |-> project, environment |-> FirstPart(tag), pipeline |-> LastPart(tag)]

\* The first segment is a registry if there is a dot or a port in it.
ProjectPath(repo) ==
    IF Where(repo, "/") = {} \/ Min(Where(repo, "/")) = 1 THEN <<>>
    ELSE LET i == Min(Where(repo, "/")) IN
         IF \E j \in 1..i - 1 : repo[j] \in {".", ":"}
         THEN SubSeq(repo, i + 1, Len(repo)) ELSE repo

\* The tag follows the last colon after the last slash.
ParseImage(image, environments, numbers) ==
    IF Where(image, "/") = {} THEN Refused
    ELSE LET colons == {i \in Where(image, ":") : i > Max(Where(image, "/"))} IN
         IF colons = {} THEN Refused
         ELSE LET colon == Max(colons)
                  project == ProjectPath(SubSeq(image, 1, colon - 1))
              IN  IF project = <<>> THEN Refused
                  ELSE ParseTag(project, SubSeq(image, colon + 1, Len(image)),
                                environments, numbers)
=============================================================================
