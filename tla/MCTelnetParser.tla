--------------------------- MODULE MCTelnetParser ---------------------------
(* A small instance of TelnetParser for TLC: a cap of one payload byte,     *)
(* bytes that look like commands, and every option the parser knows.        *)
EXTENDS TelnetParser

SmallOctets == {IAC, SE, REQUEST}
SmallCommands == {0, GA}
SmallOffers ==
  {<<WILL, ECHO>>, <<WONT, ECHO>>, <<DO, ECHO>>, <<WILL, GMCP>>, <<DONT, GMCP>>, <<DO, TTYPE>>,
   <<WILL, MSDP>>, <<DO, MXP>>, <<DO, NEW_ENV>>, <<WILL, SGA>>, <<WILL, NAWS>>, <<DO, NAWS>>,
   <<DO, CHARSET>>, <<WILL, MCCP2>>, <<DO, 99>>}
SmallSubOptions == {GMCP, TTYPE, CHARSET, NEW_ENV}

=============================================================================
