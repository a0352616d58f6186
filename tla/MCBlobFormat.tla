---------------------------- MODULE MCBlobFormat ----------------------------
(***************************************************************************)
(* Up to three entries and two dependencies.  "a" and "b" are payloads     *)
(* with one hash; a blob with two large payloads does not fit into Wrap    *)
(* bytes.                                                                  *)
(***************************************************************************)
EXTENDS BlobFormat

MCStrings == {"", "k", "key", "a", "b", "large", "r", "main", "header"}

MCSize(s) ==
    CASE s = "" -> 0 [] s = "k" -> 1 [] s = "key" -> 7 [] s = "a" -> 4 [] s = "b" -> 8
      [] s = "large" -> 160 [] s = "r" -> 9 [] s = "main" -> 5 [] s = "header" -> 6

MCDigest(s) == IF s = "b" THEN "a" ELSE s

Entry(key, code, refl, idx) == [key |-> key, code |-> code, refl |-> refl, deps |-> idx]

MCQueueable ==
    {Entry("", "a", "r", <<1>>), Entry("k", "b", "r", <<1, 2>>),
     Entry("key", "a", "a", <<>>), Entry("key", "b", "", <<2>>),
     Entry("k", "large", "r", <<1>>), Entry("key", "r", "large", <<2, 1>>),
     Entry("k", "", "b", <<1>>)}

MCDepLists ==
    {<<[path |-> "main", hash |-> 7]>>,
     <<[path |-> "header", hash |-> 7], [path |-> "main", hash |-> 0]>>}
=============================================================================
