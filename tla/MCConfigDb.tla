----------------------------- MODULE MCConfigDb -----------------------------
(***************************************************************************)
(* Instances of ConfigDb for TLC: small sets of messages in which sections *)
(* come and go, parsers change and QC configs compete.                     *)
(***************************************************************************)
EXTENDS ConfigDb

CONSTANTS t1, t2, p1, p2, s1, s2, a, b, n1, n2, x, y

Message(t, p, schema, sections, parser, storage) ==
  [thing |-> t, project |-> p, schema |-> schema, sections |-> sections,
   parser |-> parser, storage |-> storage, legacy |-> FALSE, qc |-> None]

Legacy(t, p, schema, name, tests) ==
  [thing |-> t, project |-> p, schema |-> schema, sections |-> {"mqtt"},
   parser |-> None, storage |-> FALSE, legacy |-> TRUE,
   qc |-> [name |-> name, tests |-> tests]]

Parser(name, settings) == [name |-> name, settings |-> settings]
Qc(p, name, default, tests) ==
  [project |-> p, name |-> name, default |-> default, tests |-> tests]

\* A thing with and without storage, parser and sections, and another one in
\* another project that also has a QC config of its own, or one too few.
ComingAndGoing ==
  {Message(t1, p1, s1, {"mqtt"}, Parser(a, x), TRUE),
   Message(t1, p1, s1, {"sftp"}, None, TRUE),
   Message(t1, p1, s1, {"mqtt", "sftp"}, Parser(a, y), FALSE),
   Message(t2, p2, s2, {"mqtt"}, Parser(b, x), TRUE),
   Legacy(t2, p2, s2, n2, x),
   [Legacy(t2, p2, s2, n2, x) EXCEPT !.qc = None]}

Competing ==
  {Qc(p1, n1, TRUE, x), Qc(p1, n1, FALSE, y), Qc(p1, n2, TRUE, x),
   Qc(p2, n1, TRUE, y)}

\* Two things with a parser.
Parsing ==
  {Message(t1, p1, s1, {}, Parser(a, x), TRUE),
   Message(t2, p1, s1, {}, Parser(b, y), TRUE)}

NoQc == {}
=============================================================================
