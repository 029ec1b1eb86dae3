------------------------------- MODULE BaseUrl -------------------------------
(***************************************************************************)
(* src/src/request.rs, resolve_against_base: a request path joined to the  *)
(* path of base_url.  A path is the sequence of its tokens: "/", "\\", a   *)
(* tab (for tab and line ends), a blank (for control characters too), ":", *)
(* "?" (for "#" too), "." in both spellings, and words.  Scheme and host   *)
(* are those of the base throughout, for a path that names none.           *)
(***************************************************************************)
EXTENDS Naturals, Sequences, SequencesExt

TrimStart(path, t) ==
  LET i == SelectInSeq(path, LAMBDA c : c # t)
  IN  IF i = 0 THEN <<>> ELSE SubSeq(path, i, Len(path))

TrimEnd(path, t) == SubSeq(path, 1, SelectLastInSeq(path, LAMBDA c : c # t))

(* The path up to the first of the tokens in `stops`. *)
Before(path, stops) ==
  LET i == SelectInSeq(path, LAMBDA c : c \in stops)
  IN  IF i = 0 THEN path ELSE SubSeq(path, 1, i - 1)

(* What stands before, between and behind the separators. *)
Split(path, sep) ==
  FoldLeft(LAMBDA segs, t : IF t = sep THEN Append(segs, <<>>)
                                       ELSE [segs EXCEPT ![Len(segs)] = Append(@, t)],
           << <<>> >>, path)

-----------------------------------------------------------------------------
(* The URL parser, for a path that starts with a slash: blanks at the end go,   *)
(* the query ends it, dot segments are resolved in either spelling.             *)
Dot == {".", "%2e"}
Single == {<<d>> : d \in Dot}
Double == {<<d, e>> : d, e \in Dot}

Walk(segs) ==
  LET Step(walked, seg) ==
        CASE seg \in Double -> IF walked = <<>> THEN walked ELSE Front(walked)
          [] seg \in Single -> walked
          [] OTHER          -> Append(walked, seg)
  IN  FoldLeft(Step, <<>>, segs)

Segments(path) ==
  LET segs == Tail(Split(Before(TrimEnd(path, " "), {"?"}), "/"))
  IN  IF Last(segs) \in Single \cup Double THEN Append(Walk(segs), <<>>) ELSE Walk(segs)

(* Every segment behind a slash. *)
Slashed(segs) == FoldLeft(LAMBDA done, seg : done \o <<"/">> \o seg, <<>>, segs)

Normal(path) == Slashed(Segments(path))

-----------------------------------------------------------------------------
(* The path as the parser will see it. *)
WithoutTabs(path) ==
  FoldLeft(LAMBDA done, c : IF c = "tab" THEN done ELSE Append(done, c), <<>>, path)

Cleaned(path) ==
  LET kept == WithoutTabs(path)
  IN  TrimStart([i \in DOMAIN kept |-> IF kept[i] = "\\" THEN "/" ELSE kept[i]], " ")

(* It names an authority or a scheme of its own. *)
IsAbsolute(cleaned) ==
  \/ IsPrefix(<<"/", "/">>, cleaned)
  \/ LET start == Before(cleaned, {"/", "?"}) IN \E i \in DOMAIN start : start[i] = ":"

Joined(base, cleaned) == TrimEnd(base, "/") \o <<"/">> \o TrimStart(cleaned, "/")

(* Plausible bugs: the paths are compared as they are, or always lengthened. *)
AsDirBare(path) == path
AsDirTwice(path) == Append(path, "/")
AsDir(path) == IF Last(path) = "/" THEN path ELSE Append(path, "/")

(* The path a request would go to, and whether it is refused. *)
Requested(base, path) == Normal(Joined(base, Cleaned(path)))

Refuses(base, path) ==
  \/ IsAbsolute(Cleaned(path))
  \/ ~IsPrefix(AsDir(base), AsDir(Requested(base, path)))

ResolveAgainstBase(base, path) ==
  IF Refuses(base, path) THEN "refused" ELSE Requested(base, path)
=============================================================================
