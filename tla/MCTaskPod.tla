----------------------------- MODULE MCTaskPod ------------------------------
(* Small instances of TaskPod.                                              *)
EXTENDS TaskPod

CONSTANTS a1, a2

Container(n, always, port) == [name |-> n, always |-> always, port |-> port, sound |-> TRUE]
Pip      == Container(PIP, FALSE, "own")
Postgres == Container(POSTGRES, TRUE, "own")
S3Native == Container(S3, TRUE, "own")

Template(init) == [init |-> init, auth |-> TRUE, automount |-> FALSE]

\* With everything, and one that is refused: its installer is not the first.
SomeTemplates == {Template(<<Pip, Postgres, S3Native>>), Template(<<Postgres, Pip>>)}

SomeLimits == [modules |-> 2, secrets |-> 2, requirements |-> 2, requirement_bytes |-> 3,
               inline |-> 3, source |-> 4, spark |-> 2]

Requirement(form, name)   == [form |-> form, name |-> name, size |-> 1]
Secret(name, env)         == [name |-> name, env |-> env]
Module(name, lang, size)  == [name |-> name, entry |-> <<"entry", name, size>>, language |-> lang, size |-> size]

Plain == [runner |-> "base", language |-> "python", size |-> 1, spark |-> FALSE, access |-> FALSE,
          requirements |-> <<>>, secrets |-> <<>>, modules |-> <<>>, image |-> ""]

Packages == [Plain EXCEPT !.access = TRUE, !.image = "big",
               !.requirements = <<Requirement("package", "pandas"), Requirement("package", "numpy")>>,
               !.secrets = <<Secret("db", "API_KEY"), Secret("db", "TOKEN")>>,
               !.modules = <<Module("market", "python", 1), Module("dates", "", 2)>>]
Spark    == [Plain EXCEPT !.runner = "spark", !.spark = TRUE, !.modules = <<Module("market", "python", 1)>>]
Unpulled == [Plain EXCEPT !.image = "typo"]
OldImage == [Plain EXCEPT !.image = "old"]

\* One for every check there is.
Refusable ==
  {[Plain EXCEPT !.runner = "flink"], [Plain EXCEPT !.size = 5], [Plain EXCEPT !.spark = TRUE],
   [Plain EXCEPT !.image = "unknown"],
   [Spark EXCEPT !.spark = FALSE], [Spark EXCEPT !.language = "sql", !.modules = <<>>],
   [Spark EXCEPT !.requirements = Packages.requirements], [Spark EXCEPT !.size = 2],
   [Spark EXCEPT !.secrets = Packages.secrets], [Spark EXCEPT !.image = "big"],
   [Packages EXCEPT !.language = "sql"],
   [Packages EXCEPT !.requirements = @ \o <<Requirement("package", "polars")>>],
   [Packages EXCEPT !.requirements = <<Requirement("package", "pandas"), Requirement("package", "pandas")>>],
   [Packages EXCEPT !.secrets = @ \o <<Secret("db", "THIRD")>>]}
  \cup {[Packages EXCEPT !.requirements = <<Requirement(f, "pandas")>>] :
          f \in {"empty", "long", "lines", "option", "url", "invalid", "direct"}}
  \cup {[Packages EXCEPT !.secrets = <<Secret("db", "API_KEY"), s>>] :
          s \in {Secret("web", "API_KEY"), Secret("web", "HOME"), Secret("web", "1st"), Secret("two words", "WEB")}}
  \cup {[Packages EXCEPT !.modules = <<Module("market", "python", 1), m>>] :
          m \in {Module("market", "python", 2), Module("task", "python", 1), Module("json", "python", 1),
                 Module("1st", "python", 1), Module("rows", "sql", 1), Module("large", "python", 3)}}

\* Packages on an operator's image, Spark, an image no longer configured; the
\* second attempt competes for the slot with one that cannot be pulled.
SomeConfigs == (a1 :> ({Packages, Spark, OldImage} \cup Refusable)) @@ (a2 :> {Unpulled})

TwoAttempts == {a1, a2}
TwoRunners  == {"base", "spark"}
TwoImages   == {"big", "typo"}
OldImages   == {"big", "typo", "old"}
OneImage    == {"big"}
=============================================================================
