----------------------------- MODULE MCEvidence -----------------------------
\* EvidenceProps on two texts, a repository of two commits and six reports that
\* ask for every kind of check.
EXTENDS EvidenceProps

CONSTANTS v1, v2

TwoVerifiers == {v1, v2}
VerifierSymmetry == Permutations(TwoVerifiers)

A == [says |-> {"q1", "q2"}, numbers |-> {Whole(3), <<5, 2>>}, size |-> 2,
      dates |-> {[form |-> "mdy", day |-> 1], [form |-> "unknown", day |-> 2]},
      deps |-> [p |-> [op |-> "^", base |-> <<0, 1, 2>>, text |-> "^0.1.2"],
                s |-> [op |-> "compound", base |-> Null, text |-> "1 || 2"]]]
B == [says |-> {"q2"}, numbers |-> {}, size |-> 5, dates |-> {},
      deps |-> [p |-> [op |-> "~", base |-> <<0, 1, 0>>, text |-> "~0.1"]]]
TwoContents == {A, B}

Holds(text, repo) == [files |-> [f |-> text], page |-> text, repo |-> repo]
ThreeVersions == {Holds(A, {"c1"}), Holds(B, {"c1", "c2"}), Holds(Null, Null)}
OneOrigin == {Holds(A, {"c1"})}
Changed == [c1 |-> {"x"}, c2 |-> {"x", "y"}]
Diffs == [c1 |-> [x |-> {"old"}, y |-> {}], c2 |-> [x |-> {"new"}, y |-> {"new"}]]

Says(name, fields) == [statement |-> name] @@ fields
Research(claims, commit) == [surface |-> "research", claims |-> claims, commit |-> commit]

Key == [readable |-> TRUE]
Num(name, op, xs, stated) ==
    Says(name, [op |-> op, operands |-> xs, statedValue |-> stated])
Whole2(a, b) == <<Whole(a), Whole(b)>>

Sums == Research(<<
    Num("sum", "sum", Whole2(1, 2), Whole(3)), Num("mean", "mean", Whole2(1, 2), <<3, 2>>),
    Num("product", "product", Whole2(3, 4), Whole(11)), Num("diff", "diff", <<Whole(9), Whole(2), Whole(3)>>, Whole(4)),
    Num("ratio", "ratio", Whole2(1, -2), <<-1, 2>>), Num("zero", "ratio", Whole2(1, 0), Whole(0)),
    Num("percent", "percent", Whole2(1, 4), Whole(25)), Num("min", "min", Whole2(2, 1), Whole(2)),
    Num("max", "max", Whole2(1, 2), Whole(2)), Num("median", "median", Whole2(4, 1), <<5, 2>>),
    Num("middle", "median", <<Whole(5), Whole(1), Whole(2)>>, Whole(2)),
    Num("count", "count", Whole2(7, 7), Whole(2)), Num("abs", "abs", <<Whole(-3)>>, Whole(3)),
    Num("pow", "pow", Whole2(-2, 3), Whole(-8)), Num("mod", "mod", Whole2(-7, 3), Whole(-1)),
    Num("variance", "variance", Whole2(1, 3), Whole(1)), Num("stddev", "stddev", Whole2(1, 5), Whole(2)),
    Num("floor", "floor", <<<<-3, 2>>>>, Whole(-2)), Num("ceil", "ceil", <<<<-3, 2>>>>, Whole(-1)),
    Num("round", "round", <<<<-3, 2>>>>, Whole(-1)), Num("none", "mean", <<>>, Whole(3))>>, Null)

Facts == Research(<<
    Says("commit", [statedCommit |-> "c2"]),
    Says("change", [statedCommit |-> "c1", statedChangedFile |-> "y", statedDiffText |-> "new"]),
    Says("version", [statedPackage |-> "p", dependencyFile |-> "f",
                     statedPackageVersion |-> [base |-> <<0, 2, 0>>, text |-> "0.2.0"]]),
    Says("file", [statedFile |-> "f"]),
    Says("artifact", [statedArtifact |-> "f", artifactMinBytes |-> 2, artifactMaxBytes |-> 4,
                      artifactSha256 |-> A])>>, "c2")

Texts == Research(<<
    Says("quote", [quotedText |-> "q1", sourceFile |-> "f", statedValue |-> <<5, 2>>]),
    Says("quote", [quotedText |-> "q2", sourceFile |-> "f", statedValue |-> Whole(4)]),
    Says("day", [statedDate |-> [form |-> "iso", day |-> 1], sourceFile |-> "f"]),
    Says("hash", [statedHash |-> <<"sha256", A>>, contentFile |-> "f"]),
    Says("signed", [signature |-> [by |-> Key, over |-> A], publicKey |-> Key, contentFile |-> "f"]),
    Says("range", [statedValue |-> Whole(3), statedMin |-> Whole(1), statedMax |-> Whole(2)])>>, Null)

Pages == Research(<<
    Says("live", [quotedText |-> "q1", sourceUrl |-> "https", sourceText |-> B]),
    Says("bad link", [quotedText |-> Blank, sourceUrl |-> "ftp"]),
    Says("empty", [quotedText |-> "q2", sourceUrl |-> "empty", sourceText |-> A])>>, "c1")

Text == [type |-> "string", v |-> "t"]
List == <<<<"key", "a">>>>
Doc(key) == <<>> :> [type |-> "object"] @@ <<<<"key", key>>>> :> [type |-> "array"]
               @@ <<<<"key", key>>, <<"item", 1>>>> :> Text
Schema == <<>> :> [type |-> "object", required |-> {"a"}] @@ List :> [type |-> "array"]
             @@ Append(List, AnyItem) :> [type |-> "string", enum |-> {Text}]
Cites == Research(<<
    Says("cited", [receiptFile |-> 1, statedReceiptId |-> <<"pages", "pass">>]),
    Says("fits", [schemaData |-> Doc("a"),
                  schemaDef |-> Schema, conforms |-> TRUE]),
    Says("lacks", [schemaData |-> Doc("b"), schemaDef |-> Schema, conforms |-> FALSE]),
    Says("text", [statedPackage |-> "s", dependencyFile |-> "f",
                  statedPackageVersion |-> [base |-> Null, text |-> "1 || 2"]])>>, Null)

Council == [surface |-> "council", commit |-> Null, claims |-> <<
    Says("ground", [decision |-> "d1", quotedText |-> "q1", sourceFile |-> "f"]),
    Says("bounds", [decision |-> "d1", statedValue |-> Whole(3), statedMin |-> Whole(4)]),
    Says("hashed", [decision |-> "d2", statedHash |-> <<"sha256", A>>, contentFile |-> "f"]),
    Says("linked", [decision |-> "d2", sourceUrl |-> "empty"])>>]

SixReports == [sums |-> Sums, facts |-> Facts, texts |-> Texts, pages |-> Pages,
               cites |-> Cites, council |-> Council]

ASSUME ReportsAreRecomputed == RecomputedRight
=============================================================================
