-------------------------------- MODULE MCIfAddrs ------------------------------
EXTENDS IfAddrs

Entry(name, family, addr, mask) ==
  [name |-> name, family |-> family, addr |-> addr, mask |-> mask]

\* Two interfaces, 2 and 4, and the label 3 of an address of 2, with a few netmasks.
SomeEntries ==
  {Entry(2, "none", 0, NoMask), Entry(4, "packet", 0, NoMask), Entry(2, "inet", 5, 12),
   Entry(3, "inet", 6, 15), Entry(2, "inet6", 7, 8), Entry(4, "inet6", 8, 14),
   Entry(4, "inet", 9, NoMask)}

\* All lists of up to three entries, and a list for every netmask.
SomeLists ==
  SeqOf(SomeEntries, 3) \cup {<<Entry(2, "inet", 5, mask)>> : mask \in 0 .. 2^Width - 1}

Device(name, columns, glued, bad) ==
  [name |-> name, columns |-> columns, glued |-> glued, bad |-> bad]

\* No file, full lines, a line that is one counter short, a line with a glued name, which
\* shifts the parts, and counters that are not to be parsed.
SomeTables ==
  {<<>>, <<Device(4, 16, FALSE, {}), Device(2, 16, FALSE, {})>>,
   <<Device(2, 10, FALSE, {9}), Device(4, 9, FALSE, {})>>,
   <<Device(2, 16, TRUE, {}), Device(4, 16, FALSE, {1, 2})>>}
==============================================================================
