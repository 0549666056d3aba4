SPECIFICATION FairSpec
CONSTANTS
  Pedido = {h1, h2, h3}
  Pokemon = {pikachu}
  Posicion = {x1, x2}
  Cantidad = {1}
  Nulo = Nulo
  BLOCKS = 2
  MaxCaidas = 0
CHECK_DEADLOCK FALSE
PROPERTY TodoPedidoTermina
