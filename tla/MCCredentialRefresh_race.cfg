\* Two processes re-read the file before either of them spends the token.
CONSTANTS
  c1 = c1  c2 = c2  p1 = p1  p2 = p2
  Callers = {c1, c2}
  Procs = {p1, p2}
  ProcOf <- ProcessEach
  NoCaller = NoCaller
  NoToken = NoToken
  MaxToken = 2
  MaxLogins = 0
SPECIFICATION Spec
PROPERTY PermanentIsHopeless
