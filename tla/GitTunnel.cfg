\* Two calls, three tunnels, a mishap of any kind, both transports.
CONSTANTS
  c1 = c1  c2 = c2
  Call = {c1, c2}
  None = None
  Mishap <- AllMishaps
  MaxTunnels = 3
  MaxMishaps = 1
SPECIFICATION Spec
PROPERTY ReadyOnReturn
PROPERTY BootstrapReturns
PROPERTY TunnelHeals
INVARIANT ServersAccounted
CHECK_DEADLOCK FALSE
