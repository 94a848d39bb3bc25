\* Every program; a connection of the control socket, a send request of the pool and
\* one beyond it, two tunnels one after the other.
SPECIFICATION Spec
CONSTANTS
  Program = {"tun", "socks5", "server", "windows", "desktop", "apple", "android"}
  Conn = {c1}
  Req = {1, 2}
  POOL = 1
  Burst = FALSE
  Id = {1, 2}
  MaxTurns = 2
  c1 = c1
INVARIANTS
  
  
  
  
  ProcessAccounted

  
CHECK_DEADLOCK FALSE
