SPECIFICATION Spec
CONSTANTS
  a1 = a1  a2 = a2  a3 = a3  s1 = s1  s2 = s2  d1 = d1
  id = id  path = path  v0 = v0  v1 = v1  v2 = v2  v3 = v3  v4 = v4
  Flag = Flag  NoAddress = NoAddress
  Sites = {s1, s2, d1}
  Names = {id, path}
  Values = {v0, v1, v2, v3, v4}
  WwwOf <- Domain
  CookieFile <- File
  Addresses = {a1, a2, a3}
  ServerOf <- Servers
  EndpointsOf <- Endpoints
  Ups <- SomeUp
  Webs <- AllWebs
  MaxChunks = 2
  MaxNetFaults = 0
  MaxRedirects = 1
PROPERTY PageMovedIsTrue
